---- MODULE Spec2Model ----
(***************************************************************************)
(* Model of osrs-raid-check: the Express pass-through service with its     *)
(* in-memory cache (server.js) and the browser script's eligibility engine *)
(* (script.js: fetchStats, getPlayerData, checkEligibility,                *)
(* getMissingRequirements).                                                *)
(***************************************************************************)
EXTENDS Integers, Sequences, FiniteSets, TLC

VARIABLES
  cache,      \* server.js `cache`: Map from cache key to {data, timestamp}
  clock,      \* the value Date.now() returns at this moment (ms)
  ticks,      \* how many times the clock has advanced (bounds the run)
  inflight,   \* getHiscoreData calls suspended at an await
  nextId,     \* number of /api/hiscore requests received so far
  responses,  \* responses sent by the /api/hiscore handler, in order
  upstream,   \* payloads the hiscores endpoint has returned so far
  raids,      \* script.js `raids`: the catalog of challenge requirements
  playerData, \* the record getPlayerData() returned for this evaluation
  eligible,   \* result of checkEligibility(playerData)
  missing,    \* getMissingRequirements(raid, playerData), per catalog entry
  epc,        \* position of the evaluation: "start", "checked", "done", "shown"
  cards,      \* the raid cards displayResults put into #results, in order
  usernameInput, \* value of the #username input
  playerStats,   \* script.js `playerStats`: the levels last fetched, or null
  message,       \* what the #message element shows
  msgTimer,      \* script.js `messageTimeout` and the hide timers the page has pending
  calls,      \* fetchStats calls suspended at an await
  nCalls,     \* number of fetchStats calls made so far
  sent,       \* requests fetchStats has issued, in order
  fields,     \* values of the seven stat inputs and of the #combat input
  lastLines,  \* the response body most recently parsed, as lines of fields
  consoleErrors, \* what the catch block of fetchStats passed to console.error
  legacyPage, \* the first version of the page: its two inputs, result list, alerts and calls
  questBoxes, \* the quest checkboxes that are checked
  gearSelects, \* value of each gear slot's select ("" for None)
  storage,    \* localStorage['osrs-profile']: the saved profile, or null
  profiles,   \* the objects getPlayerData() has created, by identity
  returned,   \* what each getPlayerData() call returned: who called, which object
  nSteps,     \* number of user actions on the form so far
  calc        \* one use of computeCombatLevel or xpToLevel: arguments and result

srvVars == <<cache, clock, ticks, inflight, nextId, responses, upstream>>
eligVars == <<raids, playerData, eligible, missing, epc, cards>>
pageVars == <<questBoxes, gearSelects, storage, profiles, returned, nSteps>>
cliVars == <<usernameInput, playerStats, message, msgTimer, calls, nCalls, sent, fields, lastLines, consoleErrors>>
nonSrvVars == <<eligVars, cliVars, legacyPage, pageVars, calc>>
nonEligVars == <<srvVars, cliVars, legacyPage, pageVars, calc>>
nonCliVars == <<srvVars, eligVars, legacyPage, pageVars, calc>>

nonCalcVars == <<srvVars, eligVars, cliVars, legacyPage, pageVars>>
nonLegacyVars == <<srvVars, eligVars, cliVars, pageVars, calc>>

vars == <<srvVars, eligVars, cliVars, legacyPage, pageVars, calc>>

-----------------------------------------------------------------------------
(* Bounds and inputs *)

MaxTicks == 2

\* Lookups started in one run, counting the requests the service receives
\* and the fetchStats calls made on the page.
MaxRequests == 2

\* User actions on the form in one run.
MaxSteps == 3

\* Cache lifetime in ms, the literal of `now - cached.timestamp < 300000`.
TTL == 300000

\* Amounts by which the clock advances between steps: the sums reach
\* TTL - 1, TTL and TTL + 1.
TickSteps == {1, TTL - 1}

\* Strings are sequences of one-character strings.
Players == { <<"Z", "e">>, <<"z", "e">>, <<"a">> }

\* req.query of a request: the player parameter may be missing or empty.
Queries ==
  {[defined |-> FALSE, player |-> <<>>]}
    \cup {[defined |-> TRUE, player |-> p] : p \in Players \cup {<<>>}}

-----------------------------------------------------------------------------
(* server.js *)

LowerChar(c) ==
  CASE c = "Z" -> "z"
    [] c = "E" -> "e"
    [] c = "A" -> "a"
    [] OTHER -> c

\* String.prototype.toLowerCase
toLowerCase(s) == [i \in DOMAIN s |-> LowerChar(s[i])]

\* const cacheKey = player.toLowerCase();
cacheKeyNoFold(player) == player
cacheKeyOf(player) == toLowerCase(player)

\* cached && now - cached.timestamp < 300000
IsFreshInclusive(c, key, now) == key \in DOMAIN c /\ now - c[key].timestamp <= TTL
IsFresh(c, key, now) == key \in DOMAIN c /\ now - c[key].timestamp < TTL

\* !player, for req.query.player undefined or a string
Falsy(q) == ~q.defined \/ q.player = <<>>

\* The timestamp cache.set stores: `now`, read before the fetch was issued.
StoredTimestampAtPut(call, clk) == clk
StoredTimestamp(call, clk) == call.now

\* The cache after a call that was a hit (the code leaves it alone).
CacheAfterHitRefreshed(c, key, now) ==
  [c EXCEPT ![key] = [data |-> c[key].data, timestamp |-> now]]
CacheAfterHit(c, key, now) == c

\* cache.set(cacheKey, { data: text, timestamp: now })
CacheSetUnderPlayer(c, call, text, clk) ==
  [k \in DOMAIN c \cup {call.player} |->
     IF k = call.player
       THEN [data |-> text, timestamp |-> StoredTimestamp(call, clk)]
       ELSE c[k]]
CacheSet(c, call, text, clk) ==
  [k \in DOMAIN c \cup {call.cacheKey} |->
     IF k = call.cacheKey
       THEN [data |-> text, timestamp |-> StoredTimestamp(call, clk)]
       ELSE c[k]]

\* The cache after a failed fetch: the throw happens before cache.set.
CacheAfterFailurePoisoned(c, call, clk) ==
  [k \in DOMAIN c \cup {call.cacheKey} |->
     IF k = call.cacheKey
       THEN [data |-> [player |-> call.player, n |-> 0], timestamp |-> call.now]
       ELSE c[k]]
CacheAfterFailure(c, call, clk) == c

Respond(r) == responses' = Append(responses, r)

\* Time passes between two steps of the event loop.
Tick(d) ==
  /\ ticks < MaxTicks
  /\ clock' = clock + d
  /\ ticks' = ticks + 1
  /\ UNCHANGED <<cache, inflight, nextId, responses, upstream>>
  /\ UNCHANGED nonSrvVars

\* app.get('/api/hiscore') up to its first suspension: the 400 answer, or
\* getHiscoreData up to `return cached.data` or `await fetch(url)`.
HandleRequest(q) ==
  /\ nextId + nCalls < MaxRequests
  /\ nextId' = nextId + 1
  /\ IF Falsy(q)
       THEN /\ Respond([id |-> nextId + 1, status |-> 400, query |-> q,
                        hit |-> FALSE])
            /\ UNCHANGED <<cache, inflight>>
       ELSE LET player == q.player
                cacheKey == cacheKeyOf(player)
                now == clock
            IN IF IsFresh(cache, cacheKey, now)
                 THEN /\ Respond([id |-> nextId + 1, status |-> 200, query |-> q,
                                  hit |-> TRUE, now |-> now,
                                  body |-> cache[cacheKey].data,
                                  entryTimestamp |-> cache[cacheKey].timestamp])
                      /\ cache' = CacheAfterHit(cache, cacheKey, now)
                      /\ UNCHANGED inflight
                 ELSE /\ inflight' = inflight \cup
                           {[id |-> nextId + 1, query |-> q, player |-> player,
                             cacheKey |-> cacheKey, now |-> now, pc |-> "fetch"]}
                      /\ UNCHANGED <<cache, responses>>
  /\ UNCHANGED <<clock, ticks, upstream>>
  /\ UNCHANGED nonSrvVars

\* `await fetch(url)` resolves with response.ok.
FetchOk(call) ==
  /\ call \in inflight /\ call.pc = "fetch"
  /\ inflight' = (inflight \ {call}) \cup {[call EXCEPT !.pc = "text"]}
  /\ UNCHANGED <<cache, clock, ticks, nextId, responses, upstream>>
  /\ UNCHANGED nonSrvVars

\* A variant whose catch block only logs the error.
FetchFailsUnanswered(call) ==
  /\ call \in inflight /\ call.pc \in {"fetch", "text"}
  /\ inflight' = inflight \ {call}
  /\ cache' = CacheAfterFailure(cache, call, clock)
  /\ UNCHANGED <<clock, ticks, nextId, upstream, responses>>
  /\ UNCHANGED nonSrvVars

\* `await fetch(url)` rejects, or resolves with !response.ok (the throw on
\* line 34); `await response.text()` rejects. The handler's catch answers 500.
FetchFails(call) ==
  /\ call \in inflight /\ call.pc \in {"fetch", "text"}
  /\ inflight' = inflight \ {call}
  /\ cache' = CacheAfterFailure(cache, call, clock)
  /\ Respond([id |-> call.id, status |-> 500, query |-> call.query,
              hit |-> FALSE])
  /\ UNCHANGED <<clock, ticks, nextId, upstream>>
  /\ UNCHANGED nonSrvVars

\* `await response.text()` resolves: cache.set, return text, res.send(data).
TextResolves(call) ==
  /\ call \in inflight /\ call.pc = "text"
  /\ LET text == [player |-> call.player, n |-> call.id]
     IN /\ upstream' = upstream \cup {[data |-> text, now |-> call.now]}
        /\ cache' = CacheSet(cache, call, text, clock)
        /\ Respond([id |-> call.id, status |-> 200, query |-> call.query,
                    hit |-> FALSE, body |-> text])
  /\ inflight' = inflight \ {call}
  /\ UNCHANGED <<clock, ticks, nextId>>
  /\ UNCHANGED nonSrvVars

SrvInit ==
  /\ cache = <<>>
  /\ clock = 0
  /\ ticks = 0
  /\ inflight = {}
  /\ nextId = 0
  /\ responses = <<>>
  /\ upstream = {}

SrvNext ==
  \/ \E d \in TickSteps : Tick(d)
  \/ \E q \in Queries : HandleRequest(q)
  \/ \E call \in inflight : FetchOk(call)
  \/ \E call \in inflight : FetchFails(call)
  \/ \E call \in inflight : TextResolves(call)

-----------------------------------------------------------------------------
(* script.js: the catalog and the eligibility engine *)

\* The value parseInt() gives for a non-numeric field; also stands for the
\* number an `undefined` operand converts to in a comparison.
NaN == -999999

\* a < b on JavaScript numbers: false when either operand is NaN.
JSLess(a, b) == a # NaN /\ b # NaN /\ a < b

\* !(a >= b): true when either operand is NaN.
JSNotGreaterEq(a, b) == ~(a # NaN /\ b # NaN /\ a >= b)

\* `req.combat`, `req.stats`, ... used as a condition: a missing field is
\* undefined, the number 0 is falsy, every object or array is truthy.
Truthy(req, f) ==
  /\ f \in DOMAIN req
  /\ f \in {"combat", "prayer"} => (req[f] # 0 /\ req[f] # NaN)

\* req[f] as a number operand: undefined converts to NaN.
ReqNumber(req, f) == IF f \in DOMAIN req THEN req[f] ELSE NaN

\* player[stat]: undefined (NaN in a comparison) for a property it lacks.
PlayerLevel(player, stat) == IF stat \in DOMAIN player THEN player[stat] ELSE NaN

\* Array.prototype.includes
Includes(arr, x) == \E i \in DOMAIN arr : arr[i] = x

\* A variant that looks at the body slot only.
ObjectValuesBodyOnly(gear) == {gear[slot] : slot \in DOMAIN gear \cap {"body"}}

\* Object.values(player.gear || {})
ObjectValues(gear) == {gear[slot] : slot \in DOMAIN gear}

\* stat.charAt(0).toUpperCase() + stat.slice(1)
Capitalize(stat) ==
  CASE stat = "attack" -> "Attack"
    [] stat = "strength" -> "Strength"
    [] stat = "defence" -> "Defence"
    [] stat = "hitpoints" -> "Hitpoints"
    [] stat = "ranged" -> "Ranged"
    [] stat = "prayer" -> "Prayer"
    [] stat = "magic" -> "Magic"
    [] stat = "combat" -> "Combat"
    [] OTHER -> stat

\* The reason strings, as the parts their templates are filled with.
LevelReason(name, required, current) == <<name, required, current>>
QuestReason(quest) == <<quest, "quest required">>
GearReason(tag) == <<"Missing gear:", tag>>

\* const raids = [...] (name and requirements of each entry)
RAIDS == <<
  [name |-> "Chambers of Xeric (Raids 1)",
   requirements |->
     [combat |-> 70, prayer |-> 43,
      stats |-> << <<"attack", 70>>, <<"strength", 70>>,
                   <<"defence", 70>>, <<"hitpoints", 70>> >>,
      quests |-> <<"Priest in Peril">>, gear |-> <<>>]],
  [name |-> "Theatre of Blood (Raids 2)",
   requirements |->
     [combat |-> 85, prayer |-> 55,
      stats |-> << <<"attack", 85>>, <<"strength", 85>> >>,
      quests |-> <<"Desert Treasure">>, gear |-> <<>>]],
  [name |-> "Tombs of Amascut",
   requirements |->
     [combat |-> 80, prayer |-> 50,
      stats |-> << <<"defence", 80>>, <<"hitpoints", 80>> >>,
      quests |-> <<"Recipe for Disaster">>, gear |-> <<>>]],
  [name |-> "Zulrah",
   requirements |->
     [combat |-> 70, prayer |-> 45,
      stats |-> << <<"ranged", 60>>, <<"hitpoints", 75>> >>,
      quests |-> <<"Regicide">>, gear |-> <<>>]],
  [name |-> "Vorkath",
   requirements |->
     [combat |-> 90, prayer |-> 50,
      stats |-> << <<"strength", 80>>, <<"ranged", 75>>, <<"hitpoints", 90>> >>,
      quests |-> <<"Dragon Slayer II">>, gear |-> <<>>]],
  [name |-> "The Nightmare",
   requirements |->
     [combat |-> 80, prayer |-> 50,
      stats |-> << <<"defence", 70>>, <<"hitpoints", 80>> >>,
      quests |-> <<"Priest in Peril">>, gear |-> <<>>]]
>>

\* Requirement objects with any of the five optional fields left out.
Optional(f, values) == {<<>>} \cup {f :> v : v \in values}

SparseRequirements ==
  { c @@ p @@ s @@ q @@ g :
      c \in Optional("combat", {70}),
      p \in Optional("prayer", {43}),
      s \in Optional("stats", { << <<"attack", 70>>, <<"hitpoints", 70>> >>,
                                << <<"hitpoints", 70>>, <<"attack", 70>> >> }),
      q \in Optional("quests", { <<"Priest in Peril", "Desert Treasure">> }),
      g \in Optional("gear", { <<"Fighter torso", "Amulet of fury">> }) }

\* The catalogs evaluated: the shipped one, and one-entry catalogs of
\* sparse requirement objects.
Catalogs ==
  {RAIDS} \cup {<<[name |-> "Sparse", requirements |-> r]>> : r \in SparseRequirements}

\* player.gear: slot -> item name, for the slots with a selection.
GearLoadouts ==
  { <<>>,
    "head" :> "Fighter torso",
    "body" :> "Fighter torso",
    ("body" :> "Fighter torso") @@ ("neck" :> "Amulet of fury") }

\* Two seasoned players: one meets every level of the shipped catalog and
\* has three of its quests, one meets all of it.
Veterans ==
  { [combat |-> 80, prayer |-> 50, attack |-> 75, strength |-> 75, defence |-> 80,
     hitpoints |-> 80, ranged |-> 75, magic |-> 75,
     quests |-> <<"Recipe for Disaster", "Priest in Peril">>, gear |-> <<>>],
    [combat |-> 126, prayer |-> 99, attack |-> 99, strength |-> 99, defence |-> 99,
     hitpoints |-> 99, ranged |-> 99, magic |-> 99,
     quests |-> <<"Priest in Peril", "Desert Treasure", "Recipe for Disaster",
                  "Regicide", "Dragon Slayer II">>,
     gear |-> ("body" :> "Fighter torso")] }

\* Records getPlayerData() can return.
PlayerRecords ==
  Veterans \cup
  { [combat |-> c, prayer |-> p, attack |-> a, strength |-> 75, defence |-> 75,
     hitpoints |-> h, ranged |-> 75, magic |-> 75, quests |-> q, gear |-> g] :
      c \in {69, 75, NaN}, p \in {40, 44}, a \in {60, 75, NaN}, h \in {60, 75},
      q \in { <<>>, <<"Priest in Peril">>, <<"Desert Treasure">>,
              <<"Priest in Peril", "Desert Treasure">> },
      g \in GearLoadouts }

\* The callback of raids.filter in checkEligibility: each `return false`
\* ends the evaluation of the raid.
RaidFilterNoQuests(raid, player) ==
  LET req == raid.requirements
  IN IF Truthy(req, "combat") /\ JSLess(player.combat, req.combat) THEN FALSE
     ELSE IF Truthy(req, "prayer") /\ JSLess(player.prayer, req.prayer) THEN FALSE
     ELSE IF Truthy(req, "stats")
               /\ \E i \in DOMAIN req.stats :
                    JSLess(PlayerLevel(player, req.stats[i][1]), req.stats[i][2])
            THEN FALSE
     ELSE IF Truthy(req, "gear")
               /\ \E i \in DOMAIN req.gear : req.gear[i] \notin ObjectValues(player.gear)
            THEN FALSE
     ELSE TRUE

RaidFilterUnguarded(raid, player) ==
  LET req == raid.requirements
  IN IF JSNotGreaterEq(player.combat, ReqNumber(req, "combat")) THEN FALSE
     ELSE IF JSNotGreaterEq(player.prayer, ReqNumber(req, "prayer")) THEN FALSE
     ELSE IF Truthy(req, "stats")
               /\ \E i \in DOMAIN req.stats :
                    JSLess(PlayerLevel(player, req.stats[i][1]), req.stats[i][2])
            THEN FALSE
     ELSE IF Truthy(req, "quests")
               /\ \E i \in DOMAIN req.quests : ~Includes(player.quests, req.quests[i])
            THEN FALSE
     ELSE IF Truthy(req, "gear")
               /\ \E i \in DOMAIN req.gear : req.gear[i] \notin ObjectValues(player.gear)
            THEN FALSE
     ELSE TRUE

RaidFilter(raid, player) ==
  LET req == raid.requirements
  IN IF Truthy(req, "combat") /\ JSLess(player.combat, req.combat) THEN FALSE
     ELSE IF Truthy(req, "prayer") /\ JSLess(player.prayer, req.prayer) THEN FALSE
     ELSE IF Truthy(req, "stats")
               /\ \E i \in DOMAIN req.stats :
                    JSLess(PlayerLevel(player, req.stats[i][1]), req.stats[i][2])
            THEN FALSE
     ELSE IF Truthy(req, "quests")
               /\ \E i \in DOMAIN req.quests : ~Includes(player.quests, req.quests[i])
            THEN FALSE
     ELSE IF Truthy(req, "gear")
               /\ \E i \in DOMAIN req.gear : req.gear[i] \notin ObjectValues(player.gear)
            THEN FALSE
     ELSE TRUE

\* Array.prototype.filter: the elements the callback accepts, in order.
checkEligibility(catalog, player) ==
  LET Keep(raid) == RaidFilter(raid, player)
  IN SelectSeq(catalog, Keep)

\* The loop over Object.entries(req.stats), from entry i on.
RECURSIVE PushStats(_, _, _, _)
PushStats(reasons, stats, i, player) ==
  IF i > Len(stats) THEN reasons
  ELSE LET stat == stats[i][1]
           minLevel == stats[i][2]
       IN PushStats(
            IF JSLess(PlayerLevel(player, stat), minLevel)
              THEN Append(reasons,
                          LevelReason(Capitalize(stat), minLevel, PlayerLevel(player, stat)))
              ELSE reasons,
            stats, i + 1, player)

\* A variant that puts each quest reason in front of the list (unshift).
RECURSIVE PushQuestsUnshift(_, _, _, _)
PushQuestsUnshift(reasons, quests, i, player) ==
  IF i > Len(quests) THEN reasons
  ELSE PushQuestsUnshift(
         IF ~Includes(player.quests, quests[i])
           THEN <<QuestReason(quests[i])>> \o reasons
           ELSE reasons,
         quests, i + 1, player)

\* The loop over req.quests, from element i on.
RECURSIVE PushQuests(_, _, _, _)
PushQuests(reasons, quests, i, player) ==
  IF i > Len(quests) THEN reasons
  ELSE PushQuests(
         IF ~Includes(player.quests, quests[i])
           THEN Append(reasons, QuestReason(quests[i]))
           ELSE reasons,
         quests, i + 1, player)

\* The loop over req.gear, from element i on.
RECURSIVE PushGear(_, _, _, _)
PushGear(reasons, gear, i, playerGearItems) ==
  IF i > Len(gear) THEN reasons
  ELSE PushGear(
         IF gear[i] \notin playerGearItems
           THEN Append(reasons, GearReason(gear[i]))
           ELSE reasons,
         gear, i + 1, playerGearItems)

MissingAll(raid, player) ==
  LET req == raid.requirements
      r0 == <<>>
      r1 == IF Truthy(req, "combat") /\ JSLess(player.combat, req.combat)
              THEN Append(r0, LevelReason("Combat", req.combat, player.combat))
              ELSE r0
      r2 == IF Truthy(req, "prayer") /\ JSLess(player.prayer, req.prayer)
              THEN Append(r1, LevelReason("Prayer", req.prayer, player.prayer))
              ELSE r1
      r3 == IF Truthy(req, "stats") THEN PushStats(r2, req.stats, 1, player) ELSE r2
      r4 == IF Truthy(req, "quests") THEN PushQuests(r3, req.quests, 1, player) ELSE r3
      r5 == IF Truthy(req, "gear")
              THEN PushGear(r4, req.gear, 1, ObjectValues(player.gear))
              ELSE r4
  IN r5

\* A variant that reports only the first failure, as checkEligibility stops.
getMissingRequirementsFirstOnly(raid, player) ==
  LET all == MissingAll(raid, player)
  IN IF all = <<>> THEN <<>> ELSE <<all[1]>>

getMissingRequirements(raid, player) == MissingAll(raid, player)

\* checkEligibility(player) is applied to the record.
CheckEligibilityCall ==
  /\ epc = "start"
  /\ eligible' = checkEligibility(raids, playerData)
  /\ epc' = "checked"
  /\ UNCHANGED <<raids, playerData, missing, cards>>
  /\ UNCHANGED nonEligVars

\* getMissingRequirements(raid, player) is applied to every catalog entry,
\* as raids.forEach does in displayResults.
MissingRequirementsCall ==
  /\ epc = "checked"
  /\ missing' = [i \in DOMAIN raids |-> getMissingRequirements(raids[i], playerData)]
  /\ epc' = "done"
  /\ UNCHANGED <<raids, playerData, eligible, cards>>
  /\ UNCHANGED nonEligVars

\* The card built for one raid in displayResults: the name, the `locked`
\* class and the title attribute (the reasons, one per line) when something
\* is missing.
Card(raid, player) ==
  LET reasons == getMissingRequirements(raid, player)
  IN IF Len(reasons) > 0
       THEN [name |-> raid.name, locked |-> TRUE, title |-> reasons]
       ELSE [name |-> raid.name, locked |-> FALSE, title |-> <<>>]

\* A variant that lists the qualifying raids only, as checkRaids did.
RaidCardsQualifyingOnly(catalog, player) ==
  LET ok == checkEligibility(catalog, player)
  IN [i \in DOMAIN ok |-> Card(ok[i], player)]

\* raids.forEach((raid) => { ... cardsContainer.appendChild(card) })
RaidCards(catalog, player) ==
  [i \in DOMAIN catalog |-> Card(catalog[i], player)]

\* displayResults(): the results area is emptied and refilled with the cards.
DisplayResultsCall ==
  /\ epc = "done"
  /\ cards' = RaidCards(raids, playerData)
  /\ epc' = "shown"
  /\ UNCHANGED <<raids, playerData, eligible, missing>>
  /\ UNCHANGED nonEligVars

EligIdle ==
  /\ raids = RAIDS
  /\ playerData \in {p \in PlayerRecords :
                       p.combat = 75 /\ p.prayer = 44 /\ p.attack = 75
                         /\ p.hitpoints = 75 /\ p.quests = <<>> /\ p.gear = <<>>}
  /\ eligible = <<>>
  /\ missing = <<>>
  /\ cards = <<>>
  /\ epc = "idle"

EligInit ==
  /\ raids \in Catalogs
  /\ playerData \in PlayerRecords
  /\ eligible = <<>>
  /\ missing = <<>>
  /\ cards = <<>>
  /\ epc = "start"

EligNext ==
  \/ CheckEligibilityCall
  \/ MissingRequirementsCall
  \/ DisplayResultsCall

-----------------------------------------------------------------------------
(* script.js: fetchStats *)

\* Contents of the #username input.
UsernameInputs == { <<>>, <<" ">>, <<" ", "a", " ">>, <<"Z", "e">> }

\* String.prototype.trim, on the space character.
RECURSIVE TrimStart(_)
TrimStart(s) ==
  IF s # <<>> /\ Head(s) = " " THEN TrimStart(Tail(s)) ELSE s

RECURSIVE TrimEnd(_)
TrimEnd(s) ==
  IF s # <<>> /\ s[Len(s)] = " " THEN TrimEnd(SubSeq(s, 1, Len(s) - 1)) ELSE s

TrimKeepsBlanks(s) == s
Trim(s) == TrimEnd(TrimStart(s))

\* if (!username): the empty string is the only falsy string.
UsernameMissing(username) == username = <<>>

DigitValue(c) ==
  CASE c = "0" -> 0 [] c = "1" -> 1 [] c = "2" -> 2 [] c = "3" -> 3
    [] c = "4" -> 4 [] c = "5" -> 5 [] c = "6" -> 6 [] c = "7" -> 7
    [] c = "8" -> 8 [] c = "9" -> 9 [] OTHER -> NaN

\* The digits of s from position i on, accumulated in base 10; stops at the
\* first character that is no digit.
RECURSIVE ParseDigits(_, _, _)
ParseDigits(s, i, acc) ==
  IF i > Len(s) \/ DigitValue(s[i]) = NaN THEN acc
  ELSE ParseDigits(s, i + 1, 10 * acc + DigitValue(s[i]))

\* parseInt(field, 10) of a string; `field` is Undefined for a missing
\* array element. NaN when no digit follows the optional sign.
Undefined == <<"undefined">>

ParseInt(field) ==
  LET s == TrimStart(field)
      neg == s # <<>> /\ Head(s) = "-"
      body == IF s # <<>> /\ Head(s) \in {"-", "+"} THEN Tail(s) ELSE s
  IN IF field = Undefined \/ body = <<>> \/ DigitValue(Head(body)) = NaN
       THEN NaN
       ELSE IF neg THEN 0 - ParseDigits(body, 1, 0) ELSE ParseDigits(body, 1, 0)

\* const skillNames = ['overall', 'attack', 'defence', ...]
skillNames ==
  <<"overall", "attack", "defence", "strength", "hitpoints", "ranged", "prayer", "magic">>

\* Response bodies, as text.trim().split('\n').map(line => line.split(','))
\* sees them: lines of comma-separated fields.
OkLines ==
  << << <<"9">>, <<"5", "2", "0">>, <<"9">> >>,
     << <<"1">>, <<"7", "1">>, <<"9">> >>,
     << <<"1">>, <<"7", "2">>, <<"9">> >>,
     << <<"1">>, <<"7", "3">>, <<"9">> >>,
     << <<"1">>, <<"7", "4">>, <<"9">> >>,
     << <<"1">>, <<"7", "5">>, <<"9">> >>,
     << <<"1">>, <<"4", "4">>, <<"9">> >>,
     << <<"1">>, <<"7", "7">>, <<"9">> >> >>

ShortLines == SubSeq(OkLines, 1, 3)

Payloads == {OkLines, ShortLines}

\* A body as the hiscores endpoint sends it: rank, level and experience of
\* overall, attack, defence, strength, hitpoints, ranged, prayer and magic,
\* with a different level and experience in every record.
HiscoreLines ==
  << << <<"5">>, <<"4", "3", "9">>, <<"1", "5", "4", "1", "3", "6", "0", "3">> >>,
     << <<"5">>, <<"9", "9">>, <<"1", "3", "0", "3", "4", "4", "3", "1">> >>,
     << <<"5">>, <<"1">>, <<"0">> >>,
     << <<"5">>, <<"7", "0">>, <<"7", "3", "7", "6", "2", "7">> >>,
     << <<"5">>, <<"7", "5">>, <<"1", "2", "1", "0", "4", "2", "1">> >>,
     << <<"5">>, <<"6", "0">>, <<"2", "7", "3", "7", "4", "2">> >>,
     << <<"5">>, <<"4", "4">>, <<"5", "5", "6", "4", "9">> >>,
     << <<"5">>, <<"5", "0">>, <<"1", "0", "1", "3", "3", "3">> >> >>

\* lines with the record at 0-based index i replaced.
WithRecord(lines, i, record) == [lines EXCEPT ![i + 1] = record]

\* Bodies one record short of the eight needed, and the empty body: ''.split
\* gives one line, which splits into one empty field.
SevenLines == SubSeq(HiscoreLines, 1, 7)
EmptyBody == << << <<>> >> >>

\* Bodies whose attack record is not three numeric fields: letters for the
\* level and the experience, a level with a letter after its digit, and a
\* record that is a single field.
NonNumericLines == WithRecord(OkLines, 1, << <<"1">>, <<"x">>, <<"x">> >>)
PartialLines == WithRecord(OkLines, 1, << <<"1">>, <<"7", "x">>, <<"9">> >>)
OneFieldLines == WithRecord(HiscoreLines, 1, << <<"<", "h", "t", "m", "l", ">">> >>)

\* Bodies whose prayer record lacks the experience field.
TwoFieldLines == WithRecord(HiscoreLines, 6, << <<"5">>, <<"4", "4">> >>)

HiscoreBodies ==
  Payloads \cup {HiscoreLines, SevenLines, EmptyBody, NonNumericLines, PartialLines,
                 OneFieldLines, TwoFieldLines}

\* lines[i] of a JavaScript array (0-based); Undefined past the end.
LineAt(lines, i) == IF i + 1 \in DOMAIN lines THEN lines[i + 1] ELSE Undefined

\* const [, level] = lines[i]: the second element, Undefined when missing.
LevelField(line) == IF 2 \in DOMAIN line THEN line[2] ELSE Undefined

\* A variant that reads a missing line as an empty record instead of throwing.
ParseThrowsGuarded(lines) == FALSE

\* skillNames.forEach throws a TypeError when lines[i] is undefined.
ParseThrows(lines) ==
  \E i \in 0 .. Len(skillNames) - 1 : LineAt(lines, i) = Undefined

\* stats[name] = parseInt(level, 10), for the name at index i of skillNames.
StatAt(lines, i) == ParseInt(LevelField(LineAt(lines, i)))

\* playerStats = { attack: stats.attack, strength: stats.strength, ... }
StatsOf(lines) ==
  [attack |-> StatAt(lines, 1), strength |-> StatAt(lines, 3),
   defence |-> StatAt(lines, 2), hitpoints |-> StatAt(lines, 4),
   ranged |-> StatAt(lines, 5), prayer |-> StatAt(lines, 6),
   magic |-> StatAt(lines, 7)]

\* let playerStats = null
Null == [null |-> TRUE]

\* Math.floor(x / d) and Math.floor(1.5 * x) on integers; NaN stays NaN.
FloorDiv(x, d) == IF x = NaN THEN NaN ELSE x \div d

\* a + b on JavaScript numbers.
JSAdd(a, b) == IF a = NaN \/ b = NaN THEN NaN ELSE a + b

\* Math.max(a, b, c): NaN when any argument is NaN.
JSMax3(a, b, c) ==
  IF a = NaN \/ b = NaN \/ c = NaN THEN NaN
  ELSE IF a >= b /\ a >= c THEN a ELSE IF b >= c THEN b ELSE c

\* stats[f] of an object: undefined, NaN as a number, for a missing property.
Level(stats, f) == IF f \in DOMAIN stats THEN stats[f] ELSE NaN

\* A variant that rounds each part down before adding them.
computeCombatLevelFloorParts(stats) ==
  LET base == JSAdd(JSAdd(Level(stats, "defence"), Level(stats, "hitpoints")),
                    FloorDiv(Level(stats, "prayer"), 2))
      melee == JSAdd(Level(stats, "attack"), Level(stats, "strength"))
      range == FloorDiv(IF Level(stats, "ranged") = NaN THEN NaN
                        ELSE 3 * Level(stats, "ranged"), 2)
      mage == FloorDiv(IF Level(stats, "magic") = NaN THEN NaN
                       ELSE 3 * Level(stats, "magic"), 2)
      best == JSMax3(melee, range, mage)
  IN IF base = NaN \/ best = NaN THEN NaN
     ELSE ((250 * base) \div 1000) + ((325 * best) \div 1000)

\* A variant with stats.prayer % 2 in place of Math.floor(stats.prayer / 2).
computeCombatLevelPrayerParity(stats) ==
  LET base == JSAdd(JSAdd(Level(stats, "defence"), Level(stats, "hitpoints")),
                    IF Level(stats, "prayer") = NaN THEN NaN
                    ELSE Level(stats, "prayer") % 2)
      melee == JSAdd(Level(stats, "attack"), Level(stats, "strength"))
      range == FloorDiv(IF Level(stats, "ranged") = NaN THEN NaN
                        ELSE 3 * Level(stats, "ranged"), 2)
      mage == FloorDiv(IF Level(stats, "magic") = NaN THEN NaN
                       ELSE 3 * Level(stats, "magic"), 2)
      best == JSMax3(melee, range, mage)
  IN IF base = NaN \/ best = NaN THEN NaN
     ELSE (250 * base + 325 * best) \div 1000

\* computeCombatLevel(stats), in thousandths: 0.25 * (...) and 0.325 * (...)
\* are 250 and 325 thousandths of their integer factor.
computeCombatLevel(stats) ==
  LET base == JSAdd(JSAdd(Level(stats, "defence"), Level(stats, "hitpoints")),
                    FloorDiv(Level(stats, "prayer"), 2))
      melee == JSAdd(Level(stats, "attack"), Level(stats, "strength"))
      range == FloorDiv(IF Level(stats, "ranged") = NaN THEN NaN
                        ELSE 3 * Level(stats, "ranged"), 2)
      mage == FloorDiv(IF Level(stats, "magic") = NaN THEN NaN
                       ELSE 3 * Level(stats, "magic"), 2)
      best == JSMax3(melee, range, mage)
  IN IF base = NaN \/ best = NaN THEN NaN
     ELSE (250 * base + 325 * best) \div 1000

\* The decimal digits of a natural number.
RECURSIVE DigitsOf(_)
DigitsOf(n) ==
  LET d == <<"0", "1", "2", "3", "4", "5", "6", "7", "8", "9">>[(n % 10) + 1]
  IN IF n < 10 THEN <<d>> ELSE Append(DigitsOf(n \div 10), d)

\* String(n), as `input.value = n` converts a number.
ToStr(n) ==
  IF n = NaN THEN <<"N", "a", "N">>
  ELSE IF n < 0 THEN <<"-">> \o DigitsOf(0 - n) ELSE DigitsOf(n)

StatFields == {"attack", "strength", "defence", "hitpoints", "ranged", "magic", "prayer"}
FieldIds == StatFields \cup {"combat"}

\* The inputs as the page loads them: nothing entered.
EmptyFields == [f \in FieldIds |-> <<>>]

\* document.getElementById(f).value = stats[f] for the seven skills, then
\* combatInput.value = computeCombatLevel({...}).
FieldsOf(stats) ==
  [f \in FieldIds |->
     IF f = "combat" THEN ToStr(computeCombatLevel(stats)) ELSE ToStr(stats[f])]

Hidden == [text |-> "", type |-> "hidden"]
EmptyUsernameMessage ==
  [text |-> "Please enter a RuneScape username before fetching stats.", type |-> "error"]
FailedMessage ==
  [text |-> "Failed to fetch hiscores data. Please check the username and try again later.",
   type |-> "error"]
SuccessMessage == [text |-> "Stats fetched successfully!", type |-> "success"]

\* The delay of the hide timer, ms.
HideDelay == 5000

\* No message was shown yet: messageTimeout is null, nothing is pending.
NoTimer == [handle |-> 0, count |-> 0, pending |-> {}]

\* A variant without clearTimeout(messageTimeout).
showMessageNoClear(m) ==
  /\ message' = m
  /\ msgTimer' = [handle |-> msgTimer.count + 1,
                  count |-> msgTimer.count + 1,
                  pending |-> msgTimer.pending
                                \cup {[id |-> msgTimer.count + 1, left |-> HideDelay]}]

\* showMessage(text, type): the text is shown, the timer messageTimeout
\* names is cleared, and a new timer is set and kept in messageTimeout.
showMessage(m) ==
  /\ message' = m
  /\ msgTimer' = [handle |-> msgTimer.count + 1,
                  count |-> msgTimer.count + 1,
                  pending |-> {t \in msgTimer.pending : t.id # msgTimer.handle}
                                \cup {[id |-> msgTimer.count + 1, left |-> HideDelay]}]

\* Amounts of time that pass between two steps of the page, ms.
Delays == {2000, 3000}

\* Time passes on the page: every pending timer gets nearer to its end.
PassTime(d) ==
  /\ \E t \in msgTimer.pending : t.left > 0
  /\ msgTimer' = [msgTimer EXCEPT
                    !.pending = {[id |-> t.id,
                                  left |-> IF t.left > d THEN t.left - d ELSE 0] :
                                 t \in msgTimer.pending}]
  /\ UNCHANGED <<usernameInput, playerStats, message, calls, nCalls, sent, fields,
                 lastLines, consoleErrors>>
  /\ UNCHANGED nonCliVars

\* The callback of a hide timer runs: the message is hidden and
\* messageTimeout = null.
HideTimerFires(t) ==
  /\ t \in msgTimer.pending /\ t.left = 0
  /\ message' = [text |-> "", type |-> "hidden"]
  /\ msgTimer' = [msgTimer EXCEPT !.handle = 0, !.pending = @ \ {t}]
  /\ UNCHANGED <<usernameInput, playerStats, calls, nCalls, sent, fields,
                 lastLines, consoleErrors>>
  /\ UNCHANGED nonCliVars

\* The user edits the #username input.
TypeUsername(u) ==
  /\ u # usernameInput
  /\ usernameInput' = u
  /\ UNCHANGED <<playerStats, message, msgTimer, calls, nCalls, sent, fields, lastLines, consoleErrors>>
  /\ UNCHANGED nonCliVars

\* A variant that requests the public proxy first.
FetchStatsStartProxyFirst(username) ==
  IF UsernameMissing(username)
    THEN /\ showMessage(EmptyUsernameMessage)
         /\ UNCHANGED <<playerStats, calls, sent>>
    ELSE /\ calls' = calls \cup {[id |-> nCalls + 1, username |-> username, pc |-> "proxy"]}
         /\ sent' = Append(sent, [call |-> nCalls + 1, to |-> "proxy", player |-> username])
         /\ UNCHANGED <<playerStats, message, msgTimer>>

\* fetchStats up to its first suspension: the validation, then
\* `await fetch('/api/hiscore?player=...')`.
FetchStatsStart(username) ==
  IF UsernameMissing(username)
    THEN /\ showMessage(EmptyUsernameMessage)
         /\ UNCHANGED <<playerStats, calls, sent>>
    ELSE /\ calls' = calls \cup {[id |-> nCalls + 1, username |-> username, pc |-> "backend"]}
         /\ sent' = Append(sent, [call |-> nCalls + 1, to |-> "backend", player |-> username])
         /\ UNCHANGED <<playerStats, message, msgTimer>>

\* A click on the fetch button: fetchStats() is called.
FetchStats ==
  /\ nextId + nCalls + legacyPage.n < MaxRequests
  /\ nCalls' = nCalls + 1
  /\ FetchStatsStart(Trim(usernameInput))
  /\ UNCHANGED <<usernameInput, fields, lastLines, consoleErrors>>
  /\ UNCHANGED nonCliVars

\* The backend request resolves with response.ok.
BackendOk(call) ==
  /\ call \in calls /\ call.pc = "backend"
  /\ calls' = (calls \ {call}) \cup {[call EXCEPT !.pc = "text"]}
  /\ UNCHANGED <<usernameInput, playerStats, message, msgTimer, nCalls, sent, fields, lastLines, consoleErrors>>
  /\ UNCHANGED nonCliVars

\* The backend request rejects or is not ok: the inner catch requests the
\* public CORS proxy.
BackendFails(call) ==
  /\ call \in calls /\ call.pc = "backend"
  /\ calls' = (calls \ {call}) \cup {[call EXCEPT !.pc = "proxy"]}
  /\ sent' = Append(sent, [call |-> call.id, to |-> "proxy", player |-> call.username])
  /\ UNCHANGED <<usernameInput, playerStats, message, msgTimer, nCalls, fields, lastLines, consoleErrors>>
  /\ UNCHANGED nonCliVars

\* The proxy request resolves with response.ok.
ProxyOk(call) ==
  /\ call \in calls /\ call.pc = "proxy"
  /\ calls' = (calls \ {call}) \cup {[call EXCEPT !.pc = "text"]}
  /\ UNCHANGED <<usernameInput, playerStats, message, msgTimer, nCalls, sent, fields, lastLines, consoleErrors>>
  /\ UNCHANGED nonCliVars

\* A variant whose catch block also forgets the stats fetched before.
LookupFailsForgets(call) ==
  /\ call \in calls /\ call.pc \in {"proxy", "text"}
  /\ calls' = calls \ {call}
  /\ consoleErrors' = Append(consoleErrors, [call |-> call.id, at |-> call.pc])
  /\ showMessage(FailedMessage)
  /\ playerStats' = Null
  /\ fields' = EmptyFields
  /\ UNCHANGED <<usernameInput, nCalls, sent, lastLines>>
  /\ UNCHANGED nonCliVars

\* The proxy request rejects or is not ok, or response.text() rejects: the
\* outer catch shows the failure message.
LookupFails(call) ==
  /\ call \in calls /\ call.pc \in {"proxy", "text"}
  /\ calls' = calls \ {call}
  /\ consoleErrors' = Append(consoleErrors, [call |-> call.id, at |-> call.pc])
  /\ showMessage(FailedMessage)
  /\ UNCHANGED <<usernameInput, playerStats, nCalls, sent, fields, lastLines>>
  /\ UNCHANGED nonCliVars

\* response.text() resolves with a body: the levels are parsed and stored;
\* a TypeError while parsing reaches the outer catch.
TextRead(call, lines) ==
  /\ call \in calls /\ call.pc = "text"
  /\ calls' = calls \ {call}
  /\ lastLines' = lines
  /\ IF ParseThrows(lines)
       THEN /\ consoleErrors' = Append(consoleErrors, [call |-> call.id, at |-> "parse"])
            /\ showMessage(FailedMessage)
            /\ UNCHANGED <<playerStats, fields>>
       ELSE /\ playerStats' = StatsOf(lines)
            /\ fields' = FieldsOf(StatsOf(lines))
            /\ showMessage(SuccessMessage)
            /\ UNCHANGED consoleErrors
  /\ UNCHANGED <<usernameInput, nCalls, sent>>
  /\ UNCHANGED nonCliVars

CliInit ==
  /\ usernameInput = <<>>
  /\ playerStats = Null
  /\ message = Hidden
  /\ msgTimer = NoTimer
  /\ calls = {}
  /\ nCalls = 0
  /\ sent = <<>>
  /\ fields = EmptyFields
  /\ lastLines = <<>>
  /\ consoleErrors = <<>>

CliNext ==
  \/ \E u \in UsernameInputs : TypeUsername(u)
  \/ FetchStats
  \/ \E call \in calls : BackendOk(call)
  \/ \E call \in calls : BackendFails(call)
  \/ \E call \in calls : ProxyOk(call)
  \/ \E call \in calls : LookupFails(call)
  \/ \E call \in calls : \E lines \in Payloads : TextRead(call, lines)

-----------------------------------------------------------------------------
(* script.js: the form, getPlayerData, the check-raids handler, profiles *)

\* The quest checkboxes, in document order, and the gear slots with a select.
QuestBoxOrder == <<"Priest in Peril", "Desert Treasure">>
GearSlots == {"body", "neck"}

\* What a user types into a stat input.
ManualValues == { <<"a", "b", "c">>, <<"2", "0", "0">>, <<"7", "5">> }
EditedFields == {"attack", "prayer", "combat"}

\* parseInt(value, 10) || 0
ParseIntOrZero(value) == IF ParseInt(value) = NaN THEN 0 ELSE ParseInt(value)

\* A variant that works on playerStats itself when stats were fetched:
\* levels = playerStats; levels.combat = ...; return levels.
getPlayerDataInPlace ==
  LET levels == IF playerStats # Null THEN playerStats
                ELSE [f \in StatFields |-> ParseIntOrZero(fields[f])]
      typed == ParseInt(fields.combat)
      combat == IF typed # NaN /\ typed # 0 THEN typed ELSE computeCombatLevel(levels)
      Checked(q) == q \in questBoxes
      quests == SelectSeq(QuestBoxOrder, Checked)
      gear == [slot \in {g \in GearSlots : gearSelects[g] # ""} |-> gearSelects[slot]]
  IN [fresh |-> playerStats = Null,
      value |-> [combat |-> combat, quests |-> quests, gear |-> gear] @@ levels]

\* getPlayerData(): the record built from playerStats or from the inputs,
\* the #combat input or the computed combat level, the checked quests and
\* the selected gear; `fresh` says the record is a new object.
getPlayerData ==
  LET levels == IF playerStats # Null THEN playerStats
                ELSE [f \in StatFields |-> ParseIntOrZero(fields[f])]
      typed == ParseInt(fields.combat)
      combat == IF typed # NaN /\ typed # 0 THEN typed ELSE computeCombatLevel(levels)
      Checked(q) == q \in questBoxes
      quests == SelectSeq(QuestBoxOrder, Checked)
      gear == [slot \in {g \in GearSlots : gearSelects[g] # ""} |-> gearSelects[slot]]
  IN [fresh |-> TRUE,
      value |-> [combat |-> combat, quests |-> quests, gear |-> gear] @@ levels]

\* The effect on the objects of n calls of getPlayerData() by `who`: each
\* call adds an object of its own, unless the record is playerStats itself.
Returns(who, n) ==
  LET made == getPlayerData
  IN IF made.fresh
       THEN /\ profiles' = profiles \o [k \in 1 .. n |-> made.value]
            /\ returned' = returned \o
                 [k \in 1 .. n |-> [by |-> who[k], ref |-> Len(profiles) + k]]
            /\ UNCHANGED playerStats
       ELSE /\ playerStats' = made.value
            /\ returned' = returned \o [k \in 1 .. n |-> [by |-> who[k], ref |-> 0]]
            /\ UNCHANGED profiles

NoStatsMessage ==
  [text |-> "Please enter your stats or fetch them before checking raids.", type |-> "error"]
SavedMessage == [text |-> "Profile saved.", type |-> "success"]
ClearedMessage == [text |-> "Profile cleared.", type |-> "success"]

\* The user types into one of the stat inputs.
EditField(f, v) ==
  /\ nSteps < MaxSteps
  /\ nSteps' = nSteps + 1
  /\ fields' = [fields EXCEPT ![f] = v]
  /\ UNCHANGED <<questBoxes, gearSelects, storage, profiles, returned>>
  /\ UNCHANGED <<usernameInput, playerStats, message, msgTimer, calls, nCalls, sent, lastLines,
                 consoleErrors>>
  /\ UNCHANGED <<srvVars, eligVars, legacyPage, calc>>

\* The user ticks or unticks a quest checkbox.
ToggleQuest(q) ==
  /\ nSteps < MaxSteps
  /\ nSteps' = nSteps + 1
  /\ questBoxes' = IF q \in questBoxes THEN questBoxes \ {q} ELSE questBoxes \cup {q}
  /\ UNCHANGED <<gearSelects, storage, profiles, returned>>
  /\ UNCHANGED <<srvVars, eligVars, cliVars, legacyPage, calc>>

\* The user picks an item in a gear slot's select.
SelectGear(slot, item) ==
  /\ nSteps < MaxSteps
  /\ nSteps' = nSteps + 1
  /\ gearSelects[slot] # item
  /\ gearSelects' = [gearSelects EXCEPT ![slot] = item]
  /\ UNCHANGED <<questBoxes, storage, profiles, returned>>
  /\ UNCHANGED <<srvVars, eligVars, cliVars, legacyPage, calc>>

\* The click handler of #check-raids-btn: getPlayerData(), the prompt when
\* nothing was fetched and all seven levels are 0, else displayResults(),
\* which calls getPlayerData() again and renders a card per raid.
CheckRaidsClick ==
  /\ nSteps < MaxSteps
  /\ nSteps' = nSteps + 1
  /\ LET player == getPlayerData.value
         manualFieldsEmpty ==
           playerStats = Null /\ \A f \in StatFields : player[f] = 0
     IN IF manualFieldsEmpty
          THEN /\ Returns(<<"check">>, 1)
               /\ showMessage(NoStatsMessage)
               /\ UNCHANGED <<playerData, cards>>
          ELSE /\ Returns(<<"check", "display">>, 2)
               /\ playerData' = player
               /\ cards' = RaidCards(raids, player)
               /\ UNCHANGED <<message, msgTimer>>
  /\ UNCHANGED <<questBoxes, gearSelects, storage>>
  /\ UNCHANGED <<usernameInput, calls, nCalls, sent, fields, lastLines, consoleErrors>>
  /\ UNCHANGED <<raids, eligible, missing, epc>>
  /\ UNCHANGED <<srvVars, legacyPage, calc>>

\* JSON.stringify(player): a number is written in digits, NaN as null.
JsonNull == <<"n", "u", "l", "l">>
ToJson(player) ==
  [k \in DOMAIN player |->
     IF k \notin FieldIds THEN player[k]
     ELSE IF player[k] = NaN THEN JsonNull ELSE ToStr(player[k])]

\* saveProfile()
SaveProfile ==
  /\ nSteps < MaxSteps
  /\ nSteps' = nSteps + 1
  /\ Returns(<<"save">>, 1)
  /\ storage' = ToJson(getPlayerData.value)
  /\ showMessage(SavedMessage)
  /\ UNCHANGED <<questBoxes, gearSelects>>
  /\ UNCHANGED <<usernameInput, calls, nCalls, sent, fields, lastLines, consoleErrors>>
  /\ UNCHANGED <<srvVars, eligVars, legacyPage, calc>>

\* A variant that also sets playerStats = null.
ClearProfileForgetsStats ==
  /\ nSteps < MaxSteps
  /\ nSteps' = nSteps + 1
  /\ storage' = Null
  /\ fields' = EmptyFields
  /\ gearSelects' = [slot \in GearSlots |-> ""]
  /\ questBoxes' = {}
  /\ showMessage(ClearedMessage)
  /\ playerStats' = Null
  /\ UNCHANGED <<profiles, returned>>
  /\ UNCHANGED <<usernameInput, calls, nCalls, sent, lastLines, consoleErrors>>
  /\ UNCHANGED <<srvVars, eligVars, legacyPage, calc>>

\* clearProfile(): the saved profile is removed and the form is reset.
ClearProfile ==
  /\ nSteps < MaxSteps
  /\ nSteps' = nSteps + 1
  /\ storage' = Null
  /\ fields' = EmptyFields
  /\ gearSelects' = [slot \in GearSlots |-> ""]
  /\ questBoxes' = {}
  /\ showMessage(ClearedMessage)
  /\ UNCHANGED <<profiles, returned>>
  /\ UNCHANGED <<usernameInput, playerStats, calls, nCalls, sent, lastLines, consoleErrors>>
  /\ UNCHANGED <<srvVars, eligVars, legacyPage, calc>>

\* loadProfile(): the inputs, checkboxes and selects as filled from `data`
\* over the form `form`: JSON.parse reads each number back and el.value
\* takes its digits; assigning null to input.value gives "".
LoadedFields(data, form) ==
  IF data = Null THEN form
  ELSE [f \in FieldIds |->
          IF f \notin DOMAIN data THEN form[f]
          ELSE IF data[f] = JsonNull THEN <<>> ELSE ToStr(ParseInt(data[f]))]

LoadedQuests(data, boxes) ==
  IF data = Null THEN boxes
  ELSE {QuestBoxOrder[n] : n \in {m \in DOMAIN QuestBoxOrder :
                                    Includes(data.quests, QuestBoxOrder[m])}}

LoadedGear(data, selects) ==
  IF data = Null THEN selects
  ELSE [slot \in GearSlots |-> IF slot \in DOMAIN data.gear THEN data.gear[slot] ELSE ""]

\* The page is loaded again: the script starts over with playerStats = null
\* and an empty form, and DOMContentLoaded runs loadProfile().
Reload ==
  /\ nSteps < MaxSteps
  /\ nSteps' = nSteps + 1
  /\ playerStats' = Null
  /\ message' = Hidden
  /\ msgTimer' = NoTimer
  /\ fields' = LoadedFields(storage, EmptyFields)
  /\ questBoxes' = LoadedQuests(storage, {})
  /\ gearSelects' = LoadedGear(storage, [slot \in GearSlots |-> ""])
  /\ profiles' = <<>>
  /\ returned' = <<>>
  /\ UNCHANGED storage
  /\ UNCHANGED <<usernameInput, calls, nCalls, sent, lastLines, consoleErrors>>
  /\ UNCHANGED <<srvVars, eligVars, legacyPage, calc>>

\* A caller changes one property of a record it got from getPlayerData().
\* Object 0 is playerStats.
CallerWrites(k, f, v) ==
  /\ nSteps < MaxSteps
  /\ nSteps' = nSteps + 1
  /\ k \in DOMAIN returned
  /\ IF returned[k].ref = 0
       THEN /\ playerStats' = [playerStats EXCEPT ![f] = v]
            /\ UNCHANGED profiles
       ELSE /\ profiles' = [profiles EXCEPT ![returned[k].ref][f] = v]
            /\ UNCHANGED playerStats
  /\ UNCHANGED <<questBoxes, gearSelects, storage, returned>>
  /\ UNCHANGED <<usernameInput, message, msgTimer, calls, nCalls, sent, fields, lastLines,
                 consoleErrors>>
  /\ UNCHANGED <<srvVars, eligVars, legacyPage, calc>>

\* The form as the page shows it first: nothing ticked, selected or saved.
FormInit ==
  /\ questBoxes = {}
  /\ gearSelects = [slot \in GearSlots |-> ""]
  /\ storage = Null
  /\ profiles = <<>>
  /\ returned = <<>>
  /\ nSteps = 0

-----------------------------------------------------------------------------
(* The first version of script.js: fetchStats over experience values *)

\* Math.floor(points / 4) after each round lvl = 1 .. 126 of the loop in
\* xpToLevel, where points += Math.floor(lvl + 300 * Math.pow(2, lvl / 7)).
XpThresholds ==
  <<
     83, 174, 276, 388, 512, 650, 801,
     969, 1154, 1358, 1584, 1833, 2107, 2411,
     2746, 3115, 3523, 3973, 4470, 5018, 5624,
     6291, 7028, 7842, 8740, 9730, 10824, 12031,
     13363, 14833, 16456, 18247, 20224, 22406, 24815,
     27473, 30408, 33648, 37224, 41171, 45529, 50339,
     55649, 61512, 67983, 75127, 83014, 91721, 101333,
     111945, 123660, 136594, 150872, 166636, 184040, 203254,
     224466, 247886, 273742, 302288, 333804, 368599, 407015,
     449428, 496254, 547953, 605032, 668051, 737627, 814445,
     899257, 992895, 1096278, 1210421, 1336443, 1475581, 1629200,
     1798808, 1986068, 2192818, 2421087, 2673114, 2951373, 3258594,
     3597792, 3972294, 4385776, 4842295, 5346332, 5902831, 6517253,
     7195629, 7944614, 8771558, 9684577, 10692629, 11805606, 13034431,
     14391160, 15889109, 17542976, 19368992, 21385073, 23611006, 26068632,
     28782069, 31777943, 35085654, 38737661, 42769801, 47221641, 52136869,
     57563718, 63555443, 70170840, 77474828, 85539082, 94442737, 104273167,
     115126838, 127110260, 140341028, 154948977, 171077457, 188884740, 208545572 >>

\* The first round lvl of lo .. hi whose threshold exceeds xp
\* (Math.floor(points / 4) > xp), given that there is one.
RECURSIVE FirstOver(_, _, _)
FirstOver(xp, lo, hi) ==
  IF lo = hi THEN lo
  ELSE LET mid == (lo + hi) \div 2
       IN IF \E lvl \in lo .. mid : JSLess(xp, XpThresholds[lvl])
            THEN FirstOver(xp, lo, mid)
            ELSE FirstOver(xp, mid + 1, hi)

\* A variant whose last statement is `return 1`.
xpToLevelReturnsOne(xp) ==
  IF \E lvl \in DOMAIN XpThresholds : JSLess(xp, XpThresholds[lvl])
    THEN FirstOver(xp, 1, Len(XpThresholds))
    ELSE 1

\* A variant that returns at the first threshold at or over xp (>=).
xpToLevelAtOrOver(xp) ==
  IF \E lvl \in DOMAIN XpThresholds : JSLess(xp, XpThresholds[lvl] + 1)
    THEN FirstOver(xp + 1, 1, Len(XpThresholds))
    ELSE 126

\* xpToLevel(xp): the loop returns at the first round whose threshold
\* exceeds xp; no threshold exceeds NaN; when none does the loop falls
\* through to `return 126`.
xpToLevel(xp) ==
  IF \E lvl \in DOMAIN XpThresholds : JSLess(xp, XpThresholds[lvl])
    THEN FirstOver(xp, 1, Len(XpThresholds))
    ELSE 126

\* calculateCombatLevel(att, str, def, hp, range, mage, pray), in thousandths.
calculateCombatLevel(att, str, def, hp, range, mage, pray) ==
  LET stats == [attack |-> xpToLevel(att), strength |-> xpToLevel(str),
                defence |-> xpToLevel(def), hitpoints |-> xpToLevel(hp),
                ranged |-> xpToLevel(range), magic |-> xpToLevel(mage),
                prayer |-> xpToLevel(pray)]
      base == stats.defence + stats.hitpoints + (stats.prayer \div 2)
      melee == stats.attack + stats.strength
      rangeCombat == (3 * stats.ranged) \div 2
      mageCombat == (3 * stats.magic) \div 2
  IN 250 * base + 325 * JSMax3(melee, rangeCombat, mageCombat)

\* const raids = [{name, minCombat, minPrayer}, ...] of that version.
LegacyRaids ==
  << [name |-> "Chambers of Xeric", minCombat |-> 70, minPrayer |-> 43],
     [name |-> "Theatre of Blood", minCombat |-> 90, minPrayer |-> 43],
     [name |-> "Tombs of Amascut", minCombat |-> 80, minPrayer |-> 43] >>

\* a >= b on JavaScript numbers: false when either operand is NaN.
JSGreaterEq(a, b) == a # NaN /\ b # NaN /\ a >= b

\* checkRaids(): the names listed under "Eligible Raids".
checkRaids(combatLevel, prayerLevel) ==
  LET combat == ParseInt(combatLevel)
      prayer == ParseInt(prayerLevel)
      Listed(raid) == JSGreaterEq(combat, raid.minCombat) /\ JSGreaterEq(prayer, raid.minPrayer)
      listed == SelectSeq(LegacyRaids, Listed)
  IN [i \in DOMAIN listed |-> listed[i].name]

\* lines[i].split(',')[2]: the third field of line i, Undefined when the
\* line has fewer fields.
XpField(lines, i) ==
  IF 3 \in DOMAIN LineAt(lines, i) THEN LineAt(lines, i)[3] ELSE Undefined

\* lines[i].split(...) throws a TypeError when lines[i] is undefined.
LegacyParseThrows(lines) == \E i \in 1 .. 7 : LineAt(lines, i) = Undefined

\* The experience values fetchStats reads, named as its constants are.
LegacyXP(lines) ==
  [prayerXP |-> ParseInt(XpField(lines, 6)),
   hitpointsXP |-> ParseInt(XpField(lines, 4)),
   attackXP |-> ParseInt(XpField(lines, 1)),
   strengthXP |-> ParseInt(XpField(lines, 2)),
   defenceXP |-> ParseInt(XpField(lines, 3)),
   rangedXP |-> ParseInt(XpField(lines, 5)),
   magicXP |-> ParseInt(XpField(lines, 7))]

\* The first page as loaded, a name typed into #osrsUsername.
LegacyInit ==
  legacyPage = [calls |-> {}, n |-> 0, combatLevel |-> <<>>, prayerLevel |-> <<>>,
                results |-> <<>>, alerts |-> <<>>, lines |-> <<>>]

\* A click on the fetch button of the first page: fetchStats() up to
\* `await fetch(url)`.
LegacyFetchStats ==
  /\ nextId + nCalls + legacyPage.n < MaxRequests
  /\ legacyPage' = [legacyPage EXCEPT
                      !.n = @ + 1,
                      !.calls = @ \cup {[id |-> legacyPage.n + 1, pc |-> "fetch"]}]
  /\ UNCHANGED nonLegacyVars

\* The proxy request resolves with response.ok.
LegacyFetchOk(call) ==
  /\ call \in legacyPage.calls /\ call.pc = "fetch"
  /\ legacyPage' = [legacyPage EXCEPT
                      !.calls = (@ \ {call}) \cup {[call EXCEPT !.pc = "text"]}]
  /\ UNCHANGED nonLegacyVars

\* The request rejects or is not ok, or response.text() rejects: alert.
LegacyFetchFails(call) ==
  /\ call \in legacyPage.calls
  /\ legacyPage' = [legacyPage EXCEPT
                      !.calls = @ \ {call},
                      !.alerts = Append(@, [call |-> call.id, at |-> call.pc])]
  /\ UNCHANGED nonLegacyVars

\* response.text() resolves: the experience values are read, the two
\* inputs are filled and checkRaids() lists the raids; a TypeError while
\* reading reaches the catch block.
LegacyTextRead(call, lines) ==
  /\ call \in legacyPage.calls /\ call.pc = "text"
  /\ IF LegacyParseThrows(lines)
       THEN legacyPage' = [legacyPage EXCEPT
                            !.calls = @ \ {call},
                            !.lines = lines,
                            !.alerts = Append(@, [call |-> call.id, at |-> "parse"])]
       ELSE LET xp == LegacyXP(lines)
                combat == calculateCombatLevel(xp.attackXP, xp.strengthXP, xp.defenceXP,
                                               xp.hitpointsXP, xp.rangedXP, xp.magicXP,
                                               xp.prayerXP)
                combatLevel == ToStr(combat \div 1000)
                prayerLevel == ToStr(xpToLevel(xp.prayerXP))
            IN legacyPage' = [legacyPage EXCEPT
                                !.calls = @ \ {call},
                                !.lines = lines,
                                !.combatLevel = combatLevel,
                                !.prayerLevel = prayerLevel,
                                !.results = checkRaids(combatLevel, prayerLevel)]
  /\ UNCHANGED nonLegacyVars

-----------------------------------------------------------------------------
(* computeCombatLevel and xpToLevel applied to arguments of their own *)

\* Levels the seven skills start from, and the greatest level.
LevelSamples == {1, 70, 99}
MaxLevel == 126

\* Experience values: around every threshold, and beyond the last.
XpInputs ==
  {0, 1, 300000000}
    \cup {XpThresholds[lvl] : lvl \in DOMAIN XpThresholds}
    \cup {XpThresholds[lvl] - 1 : lvl \in DOMAIN XpThresholds}

NoStats == [f \in StatFields |-> 1]

CalcIdle ==
  calc = [kind |-> "none", pc |-> "idle", stats |-> NoStats, combat |-> 0,
          raised |-> "", xp |-> 0, level |-> 0]

CombatInit ==
  \E stats \in [StatFields -> LevelSamples] :
    calc = [kind |-> "combat", pc |-> "start", stats |-> stats, combat |-> 0,
            raised |-> "", xp |-> 0, level |-> 0]

XpInit ==
  \E xp \in XpInputs :
    calc = [kind |-> "xp", pc |-> "start", stats |-> NoStats, combat |-> 0,
            raised |-> "", xp |-> xp, level |-> 0]

\* combat = computeCombatLevel(stats)
ComputeCombatLevelCall ==
  /\ calc.kind = "combat" /\ calc.pc = "start"
  /\ calc' = [calc EXCEPT !.combat = computeCombatLevel(calc.stats), !.pc = "done"]
  /\ UNCHANGED nonCalcVars

\* The same call after one level went up by one; one skill is raised
\* throughout, the other six stay as they are.
RaiseLevel(f) ==
  /\ calc.kind = "combat" /\ calc.pc = "done"
  /\ calc.raised \in {"", f}
  /\ calc.stats[f] < MaxLevel
  /\ LET stats == [calc.stats EXCEPT ![f] = @ + 1]
     IN calc' = [calc EXCEPT !.stats = stats, !.raised = f,
                             !.combat = computeCombatLevel(stats)]
  /\ UNCHANGED nonCalcVars

\* level = xpToLevel(xp)
XpToLevelCall ==
  /\ calc.kind = "xp" /\ calc.pc = "start"
  /\ calc' = [calc EXCEPT !.level = xpToLevel(calc.xp), !.pc = "done"]
  /\ UNCHANGED nonCalcVars

\* The same call with more experience.
MoreXp(xp) ==
  /\ calc.kind = "xp" /\ calc.pc = "done"
  /\ xp > calc.xp
  /\ calc' = [calc EXCEPT !.xp = xp, !.level = xpToLevel(xp)]
  /\ UNCHANGED nonCalcVars

-----------------------------------------------------------------------------
(* Specifications *)

Init == SrvInit /\ EligIdle /\ CliInit /\ LegacyInit /\ FormInit /\ CalcIdle

Next == SrvNext

\* The pass-through service under overlapping requests.
Spec == Init /\ [][Next]_vars

\* The eligibility engine applied to every catalog and player record.
EligSpecInit == SrvInit /\ EligInit /\ CliInit /\ LegacyInit /\ FormInit /\ CalcIdle

EligSpec == EligSpecInit /\ [][EligNext]_vars

\* Lookups at the page and at the service: fetchStats and the /api/hiscore
\* handler side by side. Neither validation reads the clock, which stays at
\* its initial value here; Spec covers the passage of time.
LookupInit == SrvInit /\ EligIdle /\ CliInit /\ LegacyInit /\ FormInit /\ CalcIdle

LookupNext ==
  \/ \E q \in Queries : HandleRequest(q)
  \/ \E call \in inflight : FetchOk(call)
  \/ \E call \in inflight : FetchFails(call)
  \/ \E call \in inflight : TextResolves(call)
  \/ \E u \in UsernameInputs : TypeUsername(u)
  \/ FetchStats
  \/ \E call \in calls : BackendOk(call)
  \/ \E call \in calls : BackendFails(call)
  \/ \E call \in calls : ProxyOk(call)
  \/ \E call \in calls : LookupFails(call)
  \/ \E call \in calls : \E lines \in Payloads : TextRead(call, lines)

LookupSpec == LookupInit /\ [][LookupNext]_vars

\* The page with a name typed into #username and nothing fetched yet.
CliNamed ==
  /\ usernameInput = <<"Z", "e">>
  /\ playerStats = Null
  /\ message = Hidden
  /\ msgTimer = NoTimer
  /\ calls = {}
  /\ nCalls = 0
  /\ sent = <<>>
  /\ fields = EmptyFields
  /\ lastLines = <<>>
  /\ consoleErrors = <<>>

\* fetchStats of the current page and of the first page, each for a typed
\* name, against every kind of response body.
ParseInit == SrvInit /\ EligIdle /\ CliNamed /\ LegacyInit /\ FormInit /\ CalcIdle

ParseNext ==
  \/ FetchStats
  \/ \E call \in calls : BackendOk(call)
  \/ \E call \in calls : BackendFails(call)
  \/ \E call \in calls : ProxyOk(call)
  \/ \E call \in calls : LookupFails(call)
  \/ \E call \in calls : \E lines \in HiscoreBodies : TextRead(call, lines)
  \/ LegacyFetchStats
  \/ \E call \in legacyPage.calls : LegacyFetchOk(call)
  \/ \E call \in legacyPage.calls : LegacyFetchFails(call)
  \/ \E call \in legacyPage.calls : \E lines \in HiscoreBodies : LegacyTextRead(call, lines)

ParseSpec == ParseInit /\ [][ParseNext]_vars

\* The page after one fetchStats call for the typed name has read `lines`
\* from the backend and stored its levels.
CliFetched(lines) ==
  /\ usernameInput = <<"Z", "e">>
  /\ playerStats = StatsOf(lines)
  /\ message = SuccessMessage
  /\ msgTimer = [handle |-> 1, count |-> 1, pending |-> {[id |-> 1, left |-> HideDelay]}]
  /\ calls = {}
  /\ nCalls = 1
  /\ sent = << [call |-> 1, to |-> "backend", player |-> <<"Z", "e">>] >>
  /\ fields = FieldsOf(StatsOf(lines))
  /\ lastLines = lines
  /\ consoleErrors = <<>>

\* The form in use, before any fetch or after one.
FormSpecInit ==
  /\ SrvInit /\ EligIdle /\ LegacyInit /\ FormInit /\ CalcIdle
  /\ \/ CliNamed
     \/ \E lines \in {HiscoreLines, OneFieldLines} : CliFetched(lines)

FormNext ==
  \/ \E f \in EditedFields : \E v \in ManualValues : EditField(f, v)
  \/ \E q \in {"Priest in Peril"} : ToggleQuest(q)
  \/ \E item \in {"Fighter torso", ""} : SelectGear("body", item)
  \/ CheckRaidsClick
  \/ SaveProfile
  \/ ClearProfile
  \/ Reload
  \/ \E k \in DOMAIN returned : CallerWrites(k, "attack", 1)

FormSpec == FormSpecInit /\ [][FormNext]_vars

\* A profile saved on an earlier visit, as JSON.parse gives it back.
SavedProfile ==
  ToJson([attack |-> 75, strength |-> 75, defence |-> 75, hitpoints |-> 75,
          ranged |-> 60, magic |-> 60, prayer |-> 44, combat |-> 91,
          quests |-> <<"Priest in Peril">>, gear |-> [body |-> "Fighter torso"]])

\* The page as DOMContentLoaded leaves it: nothing fetched, the inputs
\* filled by loadProfile() from the saved profile if there is one.
PageLoaded(saved) ==
  /\ usernameInput = <<"Z", "e">>
  /\ playerStats = Null
  /\ message = Hidden
  /\ msgTimer = NoTimer
  /\ calls = {}
  /\ nCalls = 0
  /\ sent = <<>>
  /\ lastLines = <<>>
  /\ consoleErrors = <<>>
  /\ storage = saved
  /\ fields = LoadedFields(saved, EmptyFields)
  /\ questBoxes = LoadedQuests(saved, {})
  /\ gearSelects = LoadedGear(saved, [slot \in GearSlots |-> ""])
  /\ profiles = <<>>
  /\ returned = <<>>
  /\ nSteps = 0

\* One visit of the page: lookups, edits of the inputs, the three buttons.
SessionInit ==
  /\ SrvInit /\ EligIdle /\ LegacyInit /\ CalcIdle
  /\ \E saved \in {Null, SavedProfile} : PageLoaded(saved)

SessionNext ==
  \/ FetchStats
  \/ \E call \in calls : BackendOk(call)
  \/ \E call \in calls : LookupFails(call)
  \/ \E call \in calls : \E lines \in {HiscoreLines, SevenLines} : TextRead(call, lines)
  \/ \E f \in {"attack"} : EditField(f, <<"7", "5">>)
  \/ CheckRaidsClick
  \/ ClearProfile

SessionSpec == SessionInit /\ [][SessionNext]_vars

\* The service with every upstream fetch settling: each promise the handler
\* awaits is resolved or rejected in the end. The clock stands still.
SettleNext ==
  \/ \E q \in Queries : HandleRequest(q)
  \/ \E call \in inflight : FetchOk(call)
  \/ \E call \in inflight : FetchFails(call)
  \/ \E call \in inflight : TextResolves(call)

Settles ==
  \E call \in inflight : FetchOk(call) \/ FetchFails(call) \/ TextResolves(call)

SettleSpec == Init /\ [][SettleNext]_vars /\ WF_vars(Settles)

\* Messages shown by the form's buttons, time passing, hide timers running.
\* Time does pass and a timer that is due does run.
MessageNext ==
  \/ CheckRaidsClick
  \/ SaveProfile
  \/ ClearProfile
  \/ \E d \in Delays : PassTime(d)
  \/ \E t \in msgTimer.pending : HideTimerFires(t)

TimeGoesOn ==
  \/ \E d \in Delays : PassTime(d)
  \/ \E t \in msgTimer.pending : HideTimerFires(t)

MessageSpec == ParseInit /\ [][MessageNext]_vars /\ WF_vars(TimeGoesOn)

\* computeCombatLevel over the sampled levels and every raise of one skill.
CombatSpecInit == SrvInit /\ EligIdle /\ CliInit /\ LegacyInit /\ FormInit /\ CombatInit

CombatNext ==
  \/ ComputeCombatLevelCall
  \/ \E f \in StatFields : RaiseLevel(f)

CombatSpec == CombatSpecInit /\ [][CombatNext]_vars

\* xpToLevel over the experience values.
XpSpecInit == SrvInit /\ EligIdle /\ CliInit /\ LegacyInit /\ FormInit /\ XpInit

XpNext ==
  \/ XpToLevelCall
  \/ \E xp \in XpInputs : MoreXp(xp)

XpSpec == XpSpecInit /\ [][XpNext]_vars

-----------------------------------------------------------------------------
(* Observations of one step, used by the properties below *)

\* The step sends exactly one response, r.
Sends(r) == responses' = Append(responses, r)

SendsOne == Len(responses') = Len(responses) + 1
Sent == responses'[Len(responses')]

\* The step is the arrival of a request whose query is q.
Arrives(q) ==
  /\ nextId' = nextId + 1
  /\ \/ \E c \in inflight' : c.id = nextId' /\ c.query = q
     \/ SendsOne /\ Sent.id = nextId' /\ Sent.query = q

\* The step issues an upstream fetch for the arriving request and answers nothing.
IssuesFetch(q) ==
  /\ responses' = responses
  /\ \E c \in inflight' \ inflight :
       c.id = nextId' /\ c.pc = "fetch" /\ c.player = q.player

\* The step is the successful end of the suspended call `call`.
Stores(call) ==
  /\ call \in inflight /\ call \notin inflight'
  /\ SendsOne /\ Sent.id = call.id /\ Sent.status = 200

\* The step is the failed end of the suspended call `call`.
Fails(call) ==
  /\ call \in inflight /\ call \notin inflight'
  /\ SendsOne /\ Sent.id = call.id /\ Sent.status = 500

Age(k) == clock - cache[k].timestamp

-----------------------------------------------------------------------------
(* C1: no response is served from a cache entry whose age (request time    *)
(* minus the entry's timestamp) is >= 300000 ms; a request arriving at age *)
(* 300000 or more is a miss that issues an upstream fetch, and the         *)
(* successful end of a fetch overwrites the key's entry with the fetched   *)
(* payload.                                                                *)
C1_NeverServedStale ==
  \A i \in DOMAIN responses :
    responses[i].hit => responses[i].now - responses[i].entryTimestamp < TTL

C1_StaleIsMiss ==
  \A q \in Queries :
    LET k == toLowerCase(q.player)
    IN (Arrives(q) /\ ~Falsy(q) /\ k \in DOMAIN cache /\ Age(k) >= TTL)
         => IssuesFetch(q)

C1_SuccessOverwrites ==
  \A call \in inflight :
    Stores(call) =>
      /\ toLowerCase(call.player) \in DOMAIN cache'
      /\ cache'[toLowerCase(call.player)].data = Sent.body
      /\ Sent.body = [player |-> call.player, n |-> call.id]

\* C1: an entry aged 300000 ms or more is never served; the request misses,
\* fetches, and a successful fetch overwrites the entry.
C1_ExpiredNeverServed ==
  /\ []C1_NeverServedStale
  /\ [][C1_StaleIsMiss /\ C1_SuccessOverwrites]_vars

\* A request arrived exactly 300000 ms after the entry's timestamp, missed,
\* fetched, and its payload replaced the entry.
C1_Witness ==
  \E i, j \in DOMAIN responses :
    /\ i < j
    /\ responses[i].status = 200 /\ ~responses[i].hit
    /\ responses[j].status = 200 /\ ~responses[j].hit
    /\ toLowerCase(responses[i].query.player) = toLowerCase(responses[j].query.player)
    /\ \E u, v \in upstream :
         /\ u.data = responses[i].body /\ v.data = responses[j].body
         /\ v.now - u.now = TTL
    /\ cache[toLowerCase(responses[j].query.player)].data = responses[j].body

-----------------------------------------------------------------------------
(* C2: a request whose lower-cased key has an entry younger than 300000 ms *)
(* is answered with exactly the stored payload, issues no upstream fetch   *)
(* and leaves the entry's payload and timestamp unchanged.                 *)
C2_HitStep ==
  \A q \in Queries :
    LET k == toLowerCase(q.player)
    IN (Arrives(q) /\ ~Falsy(q) /\ k \in DOMAIN cache /\ Age(k) < TTL)
         => /\ SendsOne
            /\ Sent.status = 200 /\ Sent.body = cache[k].data
            /\ inflight' = inflight
            /\ cache' = cache

\* C2: every arrival at an entry younger than 300000 ms is such a hit.
C2_HitReturnsStoredUnchanged == [][C2_HitStep]_vars

\* A hit was served some time after the entry was written, and the entry
\* still carries the payload and the timestamp it was written with.
C2_Witness ==
  \E i \in DOMAIN responses :
    /\ responses[i].hit
    /\ responses[i].now > responses[i].entryTimestamp
    /\ LET k == toLowerCase(responses[i].query.player)
       IN /\ k \in DOMAIN cache
          /\ cache[k].data = responses[i].body
          /\ cache[k].timestamp = responses[i].entryTimestamp

-----------------------------------------------------------------------------
(* C3: the entry written when a fetched payload is stored carries the new  *)
(* payload and the time of the store, also when the fetch took time.       *)
C3_StoreStep ==
  \A call \in inflight :
    Stores(call) =>
      cache'[toLowerCase(call.player)] = [data |-> Sent.body, timestamp |-> clock]

\* C3: every store writes the clock reading of the store as the timestamp.
C3_TimestampIsPutTime == [][C3_StoreStep]_vars

-----------------------------------------------------------------------------
(* C4: under any interleaving of overlapping requests, the entry under key *)
(* k holds a payload upstream returned for an identifier whose lower-case  *)
(* form is k, paired with the timestamp taken by the request that fetched  *)
(* it, and every successful response carries a payload upstream returned   *)
(* for the requested identifier's key.                                     *)
C4_CacheNeverCorrupted ==
  /\ \A k \in DOMAIN cache :
       \E u \in upstream :
         /\ u.data = cache[k].data
         /\ u.now = cache[k].timestamp
         /\ toLowerCase(u.data.player) = k
  /\ \A i \in DOMAIN responses :
       responses[i].status = 200 =>
         /\ \E u \in upstream : u.data = responses[i].body
         /\ toLowerCase(responses[i].body.player)
              = toLowerCase(responses[i].query.player)

\* Two overlapping requests for the same key both fetched; the one that
\* arrived first stored last, and the entry is its payload with its timestamp.
C4_Witness ==
  \E i, j \in DOMAIN responses :
    /\ i < j
    /\ responses[i].status = 200 /\ responses[j].status = 200
    /\ ~responses[i].hit /\ ~responses[j].hit
    /\ responses[j].id < responses[i].id
    /\ LET k == toLowerCase(responses[j].query.player)
       IN /\ k = toLowerCase(responses[i].query.player)
          /\ cache[k].data = responses[j].body

-----------------------------------------------------------------------------
(* C5: a request whose upstream fetch fails ends in an error and leaves    *)
(* the cache as if it had not happened: no entry is added or changed, so   *)
(* every unexpired entry is still there to be served.                      *)
C5_FailStep ==
  \A call \in inflight :
    Fails(call) => /\ cache' = cache
                   /\ Sent.status = 500

C5_OnlyStoresChange ==
  cache' # cache => \E call \in inflight : Stores(call)

\* C5: a failed fetch leaves the cache unchanged; only a successful store
\* changes it.
C5_FailureLeavesCache == [][C5_FailStep /\ C5_OnlyStoresChange]_vars

\* A request for a key failed after another request had stored an entry
\* for that key, and the entry is still the stored one.
C5_Witness ==
  \E i, j \in DOMAIN responses :
    /\ i < j
    /\ responses[i].status = 200 /\ ~responses[i].hit
    /\ responses[j].status = 500
    /\ LET k == toLowerCase(responses[i].query.player)
       IN /\ k = toLowerCase(responses[j].query.player)
          /\ k \in DOMAIN cache
          /\ cache[k].data = responses[i].body
          /\ IsFresh(cache, k, clock)

-----------------------------------------------------------------------------
(* C6: identifiers that differ only in letter case address one entry: a    *)
(* request for one spelling within the TTL of an entry stored for another  *)
(* spelling is a hit with that payload and no fetch, and a store for       *)
(* either spelling overwrites the single shared entry.                     *)
SameFold(a, b) == toLowerCase(a) = toLowerCase(b)

C6_OneEntryPerFold ==
  \A k1, k2 \in DOMAIN cache : SameFold(k1, k2) => k1 = k2

C6_OtherSpellingHits ==
  \A q \in Queries : \A k \in DOMAIN cache :
    (Arrives(q) /\ ~Falsy(q) /\ SameFold(k, q.player) /\ Age(k) < TTL)
      => /\ SendsOne /\ Sent.status = 200 /\ Sent.body = cache[k].data
         /\ inflight' = inflight

C6_StoreOverwritesShared ==
  \A call \in inflight :
    Stores(call) =>
      \A k \in DOMAIN cache' :
        SameFold(k, call.player) => cache'[k].data = Sent.body

\* C6: one entry per case-folded identifier, hit and overwritten through
\* either spelling.
C6_CaseInsensitiveKey ==
  /\ []C6_OneEntryPerFold
  /\ [][C6_OtherSpellingHits /\ C6_StoreOverwritesShared]_vars

\* A request spelled one way was served the payload fetched for the other
\* spelling.
C6_Witness ==
  \E i \in DOMAIN responses :
    /\ responses[i].hit
    /\ responses[i].body.player # responses[i].query.player
    /\ SameFold(responses[i].body.player, responses[i].query.player)

-----------------------------------------------------------------------------
(* The requirement conditions of a catalog entry, stated independently of  *)
(* the two functions that evaluate them                                    *)

Categories == {"combat", "prayer", "stats", "quests", "gear"}

\* The conditions an entry declares, in the order combat, prayer, skills,
\* quests, gear, each list in its declared order.
ConditionsOf(req) ==
  (IF Truthy(req, "combat")
     THEN << [cat |-> "combat", skill |-> "combat", min |-> req.combat] >> ELSE <<>>)
  \o (IF Truthy(req, "prayer")
        THEN << [cat |-> "prayer", skill |-> "prayer", min |-> req.prayer] >> ELSE <<>>)
  \o (IF "stats" \in DOMAIN req
        THEN [i \in DOMAIN req.stats |->
                [cat |-> "stats", skill |-> req.stats[i][1], min |-> req.stats[i][2]]]
        ELSE <<>>)
  \o (IF "quests" \in DOMAIN req
        THEN [i \in DOMAIN req.quests |-> [cat |-> "quests", item |-> req.quests[i]]]
        ELSE <<>>)
  \o (IF "gear" \in DOMAIN req
        THEN [i \in DOMAIN req.gear |-> [cat |-> "gear", item |-> req.gear[i]]]
        ELSE <<>>)

\* The condition is not met by the player (a level compares with `<`).
Unmet(cond, player) ==
  CASE cond.cat \in {"combat", "prayer", "stats"} ->
         JSLess(PlayerLevel(player, cond.skill), cond.min)
    [] cond.cat = "quests" ->
         \A i \in DOMAIN player.quests : player.quests[i] # cond.item
    [] cond.cat = "gear" ->
         \A slot \in DOMAIN player.gear : player.gear[slot] # cond.item

\* The text reported for an unmet condition.
ReasonFor(cond, player) ==
  CASE cond.cat = "combat" -> <<"Combat", cond.min, player.combat>>
    [] cond.cat = "prayer" -> <<"Prayer", cond.min, player.prayer>>
    [] cond.cat = "stats" ->
         <<Capitalize(cond.skill), cond.min, PlayerLevel(player, cond.skill)>>
    [] cond.cat = "quests" -> <<cond.item, "quest required">>
    [] cond.cat = "gear" -> <<"Missing gear:", cond.item>>

UnmetConditions(req, player) ==
  LET Failing(cond) == Unmet(cond, player)
  IN SelectSeq(ConditionsOf(req), Failing)

ExpectedReasons(req, player) ==
  LET unmet == UnmetConditions(req, player)
  IN [i \in DOMAIN unmet |-> ReasonFor(unmet[i], player)]

\* The category a reason text belongs to.
CategoryOfReason(r) ==
  IF Len(r) = 3
    THEN (IF r[1] = "Combat" THEN "combat"
          ELSE IF r[1] = "Prayer" THEN "prayer" ELSE "stats")
    ELSE (IF r[1] = "Missing gear:" THEN "gear" ELSE "quests")

Unlocked(i) == Includes(eligible, raids[i])

-----------------------------------------------------------------------------
(* C8: a catalog entry is in the result of checkEligibility(player) if and *)
(* only if getMissingRequirements(entry, player) is empty.                 *)
C8_UnlockedIffNoReasons ==
  epc = "done" =>
    \A i \in DOMAIN raids : Unlocked(i) <=> missing[i] = <<>>

\* The shipped catalog evaluated for a player who unlocks one raid and is
\* locked out of another.
C8_Witness ==
  /\ epc = "done" /\ raids = RAIDS
  /\ \E i, j \in DOMAIN raids :
       /\ Unlocked(i) /\ missing[i] = <<>>
       /\ ~Unlocked(j) /\ missing[j] # <<>>

-----------------------------------------------------------------------------
(* C9: getMissingRequirements reports every unmet condition of the entry,  *)
(* one reason each and nothing else, ordered combat, prayer, skills in     *)
(* declared order, quests in declared order, gear in declared order.       *)
C9_AllReasonsInOrder ==
  epc = "done" =>
    \A i \in DOMAIN raids :
      missing[i] = ExpectedReasons(raids[i].requirements, playerData)

\* An entry failing in all five categories at once: combat, prayer, two
\* skills, two quests and two gear items, eight reasons.
C9_Witness ==
  /\ epc = "done"
  /\ \E i \in DOMAIN raids :
       /\ Len(missing[i]) = 8
       /\ {CategoryOfReason(missing[i][n]) : n \in DOMAIN missing[i]} = Categories

-----------------------------------------------------------------------------
(* C10: a requirement category absent from a catalog entry is always       *)
(* satisfied: it contributes no reason, and checkEligibility excludes the  *)
(* entry only for an unmet condition of a category the entry has.          *)
C10_AbsentCategorySatisfied ==
  epc = "done" =>
    \A i \in DOMAIN raids :
      LET req == raids[i].requirements
      IN /\ \A n \in DOMAIN missing[i] :
              CategoryOfReason(missing[i][n]) \in DOMAIN req
         /\ ~Unlocked(i) =>
              \E c \in DOMAIN req :
                \E n \in DOMAIN ConditionsOf(req) :
                  /\ ConditionsOf(req)[n].cat = c
                  /\ Unmet(ConditionsOf(req)[n], playerData)

\* An entry with no combat and no prayer field is unlocked for a player
\* whose combat is 69 and prayer 40, and an entry with nothing but quests
\* is locked for that player by the quests alone.
C10_Witness ==
  /\ epc = "done"
  /\ playerData.combat = 69 /\ playerData.prayer = 40
  /\ \E i \in DOMAIN raids :
       LET req == raids[i].requirements
       IN \/ /\ DOMAIN req = {"stats"}
             /\ Unlocked(i) /\ missing[i] = <<>>
          \/ /\ DOMAIN req = {}
             /\ Unlocked(i) /\ missing[i] = <<>>
             /\ playerData.quests = <<>>

-----------------------------------------------------------------------------
(* C7: a lookup with a missing or empty player identifier is rejected      *)
(* before any cache lookup, cache change or upstream request: the handler  *)
(* answers 400 without calling getHiscoreData, and fetchStats with a       *)
(* username that is empty after trimming shows an error, issues no request *)
(* and leaves playerStats unchanged.                                       *)
C7_HandlerRejects ==
  \A q \in Queries :
    (Arrives(q) /\ (~q.defined \/ Len(q.player) = 0))
      => /\ SendsOne /\ Sent.id = nextId' /\ Sent.status = 400
         /\ inflight' = inflight
         /\ cache' = cache
         /\ upstream' = upstream

\* The step is a call of fetchStats.
Clicks == nCalls' = nCalls + 1

OnlyBlanks(s) == \A i \in DOMAIN s : s[i] = " "

C7_FetchStatsRejects ==
  (Clicks /\ OnlyBlanks(usernameInput))
    => /\ message' = EmptyUsernameMessage
       /\ sent' = sent
       /\ calls' = calls
       /\ playerStats' = playerStats

\* A 400 answer never carries a payload and never stems from a cache entry.
C7_RejectedUntouched ==
  \A i \in DOMAIN responses :
    (~responses[i].query.defined \/ responses[i].query.player = <<>>)
      => responses[i].status = 400 /\ ~responses[i].hit

\* C7: a missing or empty identifier is rejected by the handler and by
\* fetchStats before any lookup, cache change or request.
C7_EmptyIdentifierRejected ==
  /\ []C7_RejectedUntouched
  /\ [][C7_HandlerRejects /\ C7_FetchStatsRejects]_vars

\* The service has answered 400 to an empty player parameter, and the page
\* shows the empty-username error for a blank input, no request sent.
C7_Witness ==
  /\ \E i \in DOMAIN responses :
       /\ responses[i].status = 400
       /\ responses[i].query.defined /\ responses[i].query.player = <<>>
  /\ inflight = {} /\ cache = <<>>
  /\ message = EmptyUsernameMessage
  /\ usernameInput = <<" ">>
  /\ nCalls = 1 /\ sent = <<>> /\ calls = {}

-----------------------------------------------------------------------------
(* C11: the gear check depends only on the set of item names equipped in   *)
(* any slot: a required item is unmet exactly when no slot of player.gear  *)
(* holds it, each missing item gives one reason, and a player whose items  *)
(* sit in other slots gets the same reasons and the same verdict.          *)
EquippedAnywhere(player, item) ==
  \E slot \in DOMAIN player.gear : player.gear[slot] = item

ItemNames(gear) == {gear[slot] : slot \in DOMAIN gear}

IsGearReason(r) == Len(r) = 2 /\ r[1] = "Missing gear:"

GearReasonsOf(reasons) == SelectSeq(reasons, IsGearReason)

\* The required items no slot holds, in declared order.
MissingItems(req, player) ==
  LET NotEquipped(item) == ~EquippedAnywhere(player, item)
  IN IF "gear" \in DOMAIN req THEN SelectSeq(req.gear, NotEquipped) ELSE <<>>

\* The records that differ from `player` only in the slots the items sit in.
Reslotted(player) ==
  {p \in PlayerRecords :
     /\ [p EXCEPT !.gear = <<>>] = [player EXCEPT !.gear = <<>>]
     /\ ItemNames(p.gear) = ItemNames(player.gear)}

C11_GearBySetOfNames ==
  epc = "done" =>
    \A i \in DOMAIN raids :
      LET req == raids[i].requirements
          items == MissingItems(req, playerData)
      IN /\ GearReasonsOf(missing[i]) = [n \in DOMAIN items |-> <<"Missing gear:", items[n]>>]
         /\ (items # <<>>) => ~Unlocked(i)
         /\ \A p \in Reslotted(playerData) :
              /\ getMissingRequirements(raids[i], p) = missing[i]
              /\ RaidFilter(raids[i], p) = Unlocked(i)

\* The torso sits in the head slot: an entry asking for the torso and the
\* amulet reports the amulet alone, and the entry is locked.
C11_Witness ==
  /\ epc = "done"
  /\ playerData.gear = ("head" :> "Fighter torso")
  /\ \E i \in DOMAIN raids :
       /\ "gear" \in DOMAIN raids[i].requirements
       /\ GearReasonsOf(missing[i]) = << <<"Missing gear:", "Amulet of fury">> >>
       /\ ~Unlocked(i)

-----------------------------------------------------------------------------
(* C12: an evaluation gives one result per catalog entry, in catalog       *)
(* order: displayResults renders one card per entry, in the order of the   *)
(* catalog, locked exactly when the entry has missing requirements, and    *)
(* checkEligibility returns the qualifying entries as a duplicate-free     *)
(* subsequence of the catalog, in catalog order.                           *)
Qualifying == {i \in DOMAIN raids : UnmetConditions(raids[i].requirements, playerData) = <<>>}

\* The k-th smallest index of a set of catalog positions.
KthOf(idx, k) == CHOOSE i \in idx : Cardinality({j \in idx : j <= i}) = k

C12_OneResultPerEntry ==
  epc = "shown" =>
    /\ DOMAIN cards = DOMAIN raids
    /\ \A i \in DOMAIN raids :
         /\ cards[i].name = raids[i].name
         /\ cards[i].locked <=> missing[i] # <<>>
    /\ Len(eligible) = Cardinality(Qualifying)
    /\ \A k \in DOMAIN eligible : eligible[k] = raids[KthOf(Qualifying, k)]
    /\ \A a, b \in DOMAIN eligible : eligible[a] = eligible[b] => a = b

\* The shipped catalog for a player who qualifies for its first, third and
\* sixth entry: six cards, three of them locked.
C12_Witness ==
  /\ epc = "shown" /\ raids = RAIDS
  /\ Len(cards) = 6
  /\ eligible = <<RAIDS[1], RAIDS[3], RAIDS[6]>>
  /\ {i \in DOMAIN cards : cards[i].locked} = {2, 4, 5}

-----------------------------------------------------------------------------
(* C13: for the Chambers of Xeric entry, a profile with combat 75, prayer  *)
(* 44, attack, strength, defence and hitpoints 75 and Priest in Peril done *)
(* is unlocked with no reasons; the same profile with prayer 40 and        *)
(* without the quest is locked with exactly two reasons, the prayer        *)
(* shortfall first and the missing quest second.                           *)
ChambersIndex == CHOOSE i \in DOMAIN RAIDS : RAIDS[i].name = "Chambers of Xeric (Raids 1)"

ScenarioLevels(p) ==
  /\ p.combat = 75
  /\ p.attack = 75 /\ p.strength = 75 /\ p.defence = 75 /\ p.hitpoints = 75

HasPriestInPeril(p) == \E n \in DOMAIN p.quests : p.quests[n] = "Priest in Peril"

C13_ChambersScenario ==
  (epc \in {"done", "shown"} /\ raids = RAIDS /\ ScenarioLevels(playerData)) =>
    /\ (playerData.prayer = 44 /\ HasPriestInPeril(playerData))
         => /\ Unlocked(ChambersIndex)
            /\ missing[ChambersIndex] = <<>>
    /\ (playerData.prayer = 40 /\ ~HasPriestInPeril(playerData))
         => /\ ~Unlocked(ChambersIndex)
            /\ missing[ChambersIndex] =
                 << <<"Prayer", 43, 40>>, <<"Priest in Peril", "quest required">> >>

\* The second profile has been evaluated against the shipped catalog.
C13_Witness ==
  /\ epc = "done" /\ raids = RAIDS /\ ScenarioLevels(playerData)
  /\ playerData.prayer = 40 /\ ~HasPriestInPeril(playerData)
  /\ Len(missing[ChambersIndex]) = 2

-----------------------------------------------------------------------------
(* Observations of one step of fetchStats *)

\* The step logs an error raised at position `at` of the call.
Logs(call, at) ==
  consoleErrors' = Append(consoleErrors, [call |-> call.id, at |-> at])

\* The step is the call `call` receiving the body `lines` and parsing it.
ReadsBody(call, lines) ==
  /\ call \in calls /\ call.pc = "text" /\ call \notin calls'
  /\ lastLines' = lines
  /\ ~Logs(call, "text")

\* The step is the call `call` ending because the proxy request failed, the
\* backend request having failed before.
SourceUnavailable(call) ==
  /\ call \in calls /\ call.pc = "proxy" /\ call \notin calls'
  /\ Logs(call, "proxy")

\* Nothing the page keeps of a fetched profile changes in the step.
ProfileKept == playerStats' = playerStats /\ fields' = fields

-----------------------------------------------------------------------------
(* C16: a body with fewer than the eight records needed makes fetchStats   *)
(* fail: the error message is shown, and playerStats, the seven stat       *)
(* fields and the combat field keep their values.                          *)
C16_TruncatedStep ==
  \A call \in calls : \A lines \in HiscoreBodies :
    (ReadsBody(call, lines) /\ Len(lines) < 8)
      => /\ message' = FailedMessage
         /\ ProfileKept

C16_TruncatedFails == [][C16_TruncatedStep]_vars

\* A first call stored the levels of a full body; a second call received
\* seven records, and the page shows the error over the first call's values.
C16_Witness ==
  /\ nCalls = 2 /\ calls = {}
  /\ lastLines = SevenLines
  /\ consoleErrors = << [call |-> 2, at |-> "parse"] >>
  /\ message = FailedMessage
  /\ playerStats = StatsOf(HiscoreLines)
  /\ fields = FieldsOf(StatsOf(HiscoreLines))

-----------------------------------------------------------------------------
(* C17: when the backend request and the proxy request of a fetchStats     *)
(* call both fail, an error message is shown and the profile fetched       *)
(* before is kept: playerStats, the seven stat fields and the combat field *)
(* are unchanged.                                                          *)
C17_UnavailableStep ==
  \A call \in calls :
    SourceUnavailable(call) => /\ message' = FailedMessage
                               /\ ProfileKept

C17_UnavailableKeepsProfile == [][C17_UnavailableStep]_vars

\* A first call stored a profile; the second call's backend and proxy
\* requests both failed, and the profile is still there under the error.
C17_Witness ==
  /\ nCalls = 2 /\ calls = {}
  /\ consoleErrors = << [call |-> 2, at |-> "proxy"] >>
  /\ \E n \in DOMAIN sent : sent[n].call = 2 /\ sent[n].to = "proxy"
  /\ message = FailedMessage
  /\ playerStats = StatsOf(HiscoreLines)
  /\ fields = FieldsOf(StatsOf(HiscoreLines))
  /\ fields.combat = <<"7", "9">>

-----------------------------------------------------------------------------
(* The positional schema of a hiscores body, and what a well-formed record *)
(* is, stated independently of the parsers                                 *)

\* The 0-based record of each tracked skill; record 0 is overall.
Schema ==
  [attack |-> 1, defence |-> 2, strength |-> 3, hitpoints |-> 4, ranged |-> 5,
   prayer |-> 6, magic |-> 7]

SchemaLevel(lines, skill) == ParseInt(LevelField(LineAt(lines, Schema[skill])))
SchemaXp(lines, skill) == ParseInt(XpField(lines, Schema[skill]))

\* An optional minus sign followed by digits only.
IsNumeric(field) ==
  LET body == IF field # <<>> /\ Head(field) = "-" THEN Tail(field) ELSE field
  IN body # <<>> /\ \A n \in DOMAIN body : DigitValue(body[n]) # NaN

ThreeNumeric(record) ==
  Len(record) = 3 /\ \A n \in DOMAIN record : IsNumeric(record[n])

\* Some record of a tracked skill is present and is not three numeric fields.
HasMalformedRecord(lines) ==
  \E i \in 1 .. 7 : i + 1 \in DOMAIN lines /\ ~ThreeNumeric(lines[i + 1])

\* The step is the call `call` of the first page receiving the body `lines`.
LegacyReads(call, lines) ==
  /\ call \in legacyPage.calls /\ call.pc = "text" /\ call \notin legacyPage'.calls
  /\ legacyPage'.lines = lines
  /\ legacyPage'.alerts # Append(legacyPage.alerts, [call |-> call.id, at |-> "text"])

LegacyFilled ==
  /\ legacyPage'.alerts = legacyPage.alerts
  /\ legacyPage'.calls # legacyPage.calls

-----------------------------------------------------------------------------
(* C14: every stats-parsing path reads attack from record 1, defence from  *)
(* record 2, strength from record 3, hitpoints from record 4, ranged from  *)
(* record 5, prayer from record 6 and magic from record 7, so the levels   *)
(* stored and the combat level shown are those of the schema.              *)
C14_CurrentStep ==
  \A call \in calls : \A lines \in HiscoreBodies :
    (ReadsBody(call, lines) /\ message' = SuccessMessage)
      => \A skill \in StatFields : playerStats'[skill] = SchemaLevel(lines, skill)

C14_LegacyStep ==
  \A call \in legacyPage.calls : \A lines \in HiscoreBodies :
    (LegacyReads(call, lines) /\ LegacyFilled)
      => /\ legacyPage'.combatLevel =
              ToStr(calculateCombatLevel(
                      SchemaXp(lines, "attack"), SchemaXp(lines, "strength"),
                      SchemaXp(lines, "defence"), SchemaXp(lines, "hitpoints"),
                      SchemaXp(lines, "ranged"), SchemaXp(lines, "magic"),
                      SchemaXp(lines, "prayer")) \div 1000)
         /\ legacyPage'.prayerLevel = ToStr(xpToLevel(SchemaXp(lines, "prayer")))

\* C14: both pages parse by the positional schema.
C14_PositionalSchema == [][C14_CurrentStep /\ C14_LegacyStep]_vars

-----------------------------------------------------------------------------
(* C15: a body with a tracked skill's record that is not three numeric     *)
(* fields makes the fetch fail as a parse error: the error is reported and *)
(* nothing derived from the body is stored in playerStats or written to a  *)
(* form field.                                                             *)
C15_CurrentStep ==
  \A call \in calls : \A lines \in HiscoreBodies :
    (ReadsBody(call, lines) /\ HasMalformedRecord(lines))
      => /\ message' = FailedMessage
         /\ ProfileKept

C15_LegacyStep ==
  \A call \in legacyPage.calls : \A lines \in HiscoreBodies :
    (LegacyReads(call, lines) /\ HasMalformedRecord(lines))
      => /\ legacyPage'.alerts = Append(legacyPage.alerts, [call |-> call.id, at |-> "parse"])
         /\ legacyPage'.combatLevel = legacyPage.combatLevel
         /\ legacyPage'.prayerLevel = legacyPage.prayerLevel

\* C15: a malformed record is a parse error on both pages.
C15_MalformedIsParseError == [][C15_CurrentStep /\ C15_LegacyStep]_vars

-----------------------------------------------------------------------------
(* Observations of the page's steps *)

\* The step is a run of the handler `who` names first: it made the next
\* call of getPlayerData().
CallsGetPlayerData(who) ==
  /\ Len(returned') > Len(returned)
  /\ returned'[Len(returned) + 1].by = who

\* The text of a stat input is a level a user may supply: digits, 1..126.
ValidLevelText(text) ==
  /\ ParseInt(text) # NaN
  /\ ToStr(ParseInt(text)) = text
  /\ ParseInt(text) \in 1 .. 126

\* The stat inputs the user filled in with something that is not a level.
InvalidFields == {f \in StatFields : fields[f] # <<>> /\ ~ValidLevelText(fields[f])}

-----------------------------------------------------------------------------
(* C18: a manually supplied skill level that is non-numeric or outside     *)
(* 1..126 is rejected by the check-raids handler before any computation:   *)
(* an error is reported and no eligibility results are rendered from it.   *)
C18_CheckStep ==
  (CallsGetPlayerData("check") /\ playerStats = Null /\ InvalidFields # {})
    => /\ message'.type = "error"
       /\ cards' = cards
       /\ playerData' = playerData

\* C18: invalid manual input is rejected before results are rendered.
C18_InvalidInputRejected == [][C18_CheckStep]_vars

-----------------------------------------------------------------------------
(* C19: the combat level of every profile built by getPlayerData is the    *)
(* derived value, computeCombatLevel of the seven skill levels of the same *)
(* profile, after any sequence of fetches, edits and profile loads.        *)
SkillLevelsOf(profile) == [f \in StatFields |-> profile[f]]

\* The profiles the step's calls of getPlayerData() built.
BuiltInStep == {i \in DOMAIN profiles' : i > Len(profiles)}

C19_BuildStep ==
  \A i \in BuiltInStep :
    profiles'[i].combat = computeCombatLevel(SkillLevelsOf(profiles'[i]))

\* C19: a built profile's combat level is derived from its skill levels.
C19_CombatIsDerived == [][C19_BuildStep]_vars

-----------------------------------------------------------------------------
(* C20: a profile is a snapshot of its own. getPlayerData returns a fresh  *)
(* record, never playerStats itself; evaluating and rendering a profile    *)
(* changes neither playerStats nor the raids catalog nor the record given; *)
(* a caller's change to one returned profile changes neither playerStats   *)
(* nor a profile returned by another call.                                 *)
\* The profiles that existed before the step and differ after it.
ChangedInStep == {i \in DOMAIN profiles : i \in DOMAIN profiles' /\ profiles'[i] # profiles[i]}

\* The page was not loaded again in this step.
SamePageLoad == returned' # <<>> /\ Len(returned') >= Len(returned)

C20_Step ==
  /\ raids' = raids
  /\ \A k \in DOMAIN returned' : returned'[k].ref \in DOMAIN profiles'
  /\ \A j, k \in DOMAIN returned' : j # k => returned'[j].ref # returned'[k].ref
  /\ SamePageLoad =>
       /\ playerStats' = playerStats
       /\ Cardinality(ChangedInStep) <= 1
       /\ BuiltInStep # {} => ChangedInStep = {}
  /\ CallsGetPlayerData("check") /\ cards' # cards =>
       /\ playerData' = profiles'[Len(profiles')]
       /\ playerData' = getPlayerData.value

\* C20: profiles are fresh snapshots; evaluation and callers' writes do not
\* reach playerStats, the catalog or other profiles.
C20_ProfileIsSnapshot == [][C20_Step]_vars

\* Stats were fetched, two calls returned a profile each, and a caller
\* overwrote the attack level in one of them only.
C20_Witness ==
  /\ playerStats # Null
  /\ playerStats.attack = 99
  /\ \E j, k \in DOMAIN returned :
       /\ j # k
       /\ profiles[returned[j].ref].attack = 1
       /\ profiles[returned[k].ref].attack = 99

-----------------------------------------------------------------------------
(* C21: computeCombatLevel is floor(0.25 * (defence + hitpoints +          *)
(* floor(prayer / 2)) + max(0.325 * (attack + strength), 0.325 * floor(1.5 *)
(* * ranged), 0.325 * floor(1.5 * magic))), in integers floor((10 * base + *)
(* 13 * best) / 40); seven levels of 99 give 126.                          *)
Max2(a, b) == IF a >= b THEN a ELSE b

CombatFormula(st) ==
  (10 * (st.defence + st.hitpoints + (st.prayer \div 2))
     + 13 * Max2(st.attack + st.strength,
                 Max2((3 * st.ranged) \div 2, (3 * st.magic) \div 2))) \div 40

AllAt(st, lvl) == \A f \in StatFields : st[f] = lvl

\* C21: the computed combat level is the formula's value; all 99 gives 126.
C21_CombatFormula ==
  (calc.kind = "combat" /\ calc.pc = "done")
    => /\ calc.combat = CombatFormula(calc.stats)
       /\ AllAt(calc.stats, 99) => calc.combat = 126

C21_Witness ==
  /\ calc.kind = "combat" /\ calc.pc = "done"
  /\ AllAt(calc.stats, 99)
  /\ calc.combat = 126

-----------------------------------------------------------------------------
(* C22: computeCombatLevel is monotonic non-decreasing in each skill       *)
(* level: raising one level within 1..126 with the other six fixed never   *)
(* lowers the result.                                                      *)
RaisedOne ==
  /\ calc.kind = "combat" /\ calc.pc = "done" /\ calc'.pc = "done"
  /\ \E f \in StatFields :
       /\ calc'.stats[f] > calc.stats[f]
       /\ \A g \in StatFields \ {f} : calc'.stats[g] = calc.stats[g]

\* C22: a raise of one level never lowers the combat level.
C22_CombatMonotonic == [][RaisedOne => calc'.combat >= calc.combat]_vars

\* A raise that did change the combat level, and one skill at the top.
C22_Witness ==
  /\ calc.kind = "combat" /\ calc.pc = "done"
  /\ calc.raised = "prayer"
  /\ calc.stats.prayer = MaxLevel
  /\ calc.combat > computeCombatLevel([calc.stats EXCEPT !.prayer = 1])

-----------------------------------------------------------------------------
(* C23: xpToLevel is monotonic: e1 < e2 gives xpToLevel(e1) <=             *)
(* xpToLevel(e2), for non-negative integer experience values.              *)
MoreXpStep ==
  /\ calc.kind = "xp" /\ calc.pc = "done" /\ calc'.pc = "done"
  /\ calc.xp < calc'.xp

\* C23: more experience never gives a lower level.
C23_XpMonotonic == [][MoreXpStep => calc.level <= calc'.level]_vars

\* The level of the greatest input, reached from a lesser one.
C23_Witness ==
  /\ calc.kind = "xp" /\ calc.pc = "done"
  /\ calc.xp = 300000000
  /\ calc.level = 126

-----------------------------------------------------------------------------
(* C24: for every non-negative integer experience value xpToLevel returns  *)
(* the greatest level of 1..126 whose required experience does not exceed  *)
(* the input: 0 gives 1, 13034431 gives 99, 13034430 gives 98, and every   *)
(* input at or above the experience of level 126 gives 126.                *)
\* The experience level lvl requires: none for level 1.
XpRequired(lvl) == IF lvl = 1 THEN 0 ELSE XpThresholds[lvl - 1]

\* C24: the returned level is the greatest one the experience suffices for.
C24_GreatestLevel ==
  (calc.kind = "xp" /\ calc.pc = "done")
    => /\ calc.level \in 1 .. MaxLevel
       /\ XpRequired(calc.level) <= calc.xp
       /\ \A lvl \in (calc.level + 1) .. MaxLevel : XpRequired(lvl) > calc.xp
       /\ calc.xp = 0 => calc.level = 1
       /\ calc.xp = 13034431 => calc.level = 99
       /\ calc.xp = 13034430 => calc.level = 98
       /\ calc.xp >= XpRequired(MaxLevel) => calc.level = MaxLevel

C24_Witness ==
  /\ calc.kind = "xp" /\ calc.pc = "done"
  /\ calc.xp = 13034431
  /\ calc.level = 99

-----------------------------------------------------------------------------
(* C25: every request to /api/hiscore gets exactly one response once its   *)
(* upstream fetch, if any, settles: 400 for a missing or empty player, the *)
(* raw payload on a cache hit or a successful fetch, 500 when the fetch    *)
(* fails; none is left unanswered or answered twice, also when requests    *)
(* overlap.                                                                *)
Answered(id) == \E i \in DOMAIN responses : responses[i].id = id
Pending(id) == \E call \in inflight : call.id = id

C25_Responses ==
  /\ \A i, j \in DOMAIN responses : i # j => responses[i].id # responses[j].id
  /\ \A id \in 1 .. nextId : Answered(id) # Pending(id)
  /\ \A i \in DOMAIN responses :
       LET r == responses[i]
       IN /\ r.status \in {200, 400, 500}
          /\ (r.status = 400) <=> Falsy(r.query)
          /\ r.status = 200 =>
               /\ \E u \in upstream : u.data = r.body
               /\ cacheKeyOf(r.body.player) = cacheKeyOf(r.query.player)

\* A call that leaves `inflight` is answered in that step, with the payload
\* when the upstream delivered one and with 500 when it did not; a response
\* once sent stays as it is.
C25_SettleStep ==
  /\ \/ responses' = responses
     \/ \E r \in {responses'[Len(responses')]} : responses' = Append(responses, r)
  /\ \A call \in inflight :
       ~(\E c \in inflight' : c.id = call.id)
         => /\ Len(responses') = Len(responses) + 1
            /\ responses'[Len(responses')].id = call.id
            /\ responses'[Len(responses')].status = IF upstream' # upstream THEN 200 ELSE 500

\* C25: exactly one response per request, with the status its outcome has.
C25_OneResponsePerRequest ==
  /\ []C25_Responses
  /\ [][C25_SettleStep]_vars
  /\ \A id \in 1 .. MaxRequests : (Pending(id) ~> Answered(id))

\* Two overlapping requests: the second was fetched and answered first, the
\* first failed afterwards.
C25_Witness ==
  /\ Len(responses) = 2
  /\ responses[1].id = 2 /\ responses[1].status = 200 /\ ~responses[1].hit
  /\ responses[2].id = 1 /\ responses[2].status = 500

-----------------------------------------------------------------------------
(* C26: fetchStats requests the backend endpoint first and the public      *)
(* proxy only after the backend request has failed: a successful backend   *)
(* response is never followed by a proxy request, at most two requests are *)
(* issued per call, and the failure message is shown only when both have   *)
(* failed.                                                                 *)
\* The requests the call numbered id has issued, in order.
RequestsOf(id) ==
  LET OfCall(r) == r.call = id
  IN SelectSeq(sent, OfCall)

C26_RequestOrder ==
  \A id \in 1 .. nCalls :
    LET reqs == RequestsOf(id)
    IN /\ Len(reqs) <= 2
       /\ Len(reqs) >= 1 => reqs[1].to = "backend"
       /\ Len(reqs) = 2 => reqs[2].to = "proxy"
       /\ \A call \in calls :
            (call.id = id /\ call.pc = "backend") => Len(reqs) = 1

\* A proxy request is issued in the step in which the backend request of the
\* same call fails, and in no other.
C26_ProxyStep ==
  \A call \in calls :
    /\ (call.pc = "backend" /\ [call EXCEPT !.pc = "proxy"] \in calls')
         <=> sent' = Append(sent, [call |-> call.id, to |-> "proxy", player |-> call.username])
    /\ (call.pc = "backend" /\ [call EXCEPT !.pc = "text"] \in calls')
         => sent' = sent
    /\ call.pc \in {"proxy", "text"} => \A i \in DOMAIN sent' \ DOMAIN sent : sent'[i].call # call.id

\* The step shows the failure message.
ShowsFailure == message' = FailedMessage /\ consoleErrors' # consoleErrors

\* The failure message is shown for a call only when its backend request
\* and its proxy request have both failed.
C26_FailureStepBothFailed ==
  ShowsFailure => \E call \in calls : SourceUnavailable(call)

\* The failure message is shown for a call when its proxy request failed
\* after its backend request, or when the body of a response that did
\* arrive could not be read or parsed.
C26_FailureStep ==
  ShowsFailure =>
    \E call \in calls :
      \/ SourceUnavailable(call)
      \/ /\ call.pc = "text" /\ call \notin calls'
         /\ Logs(call, "text") \/ Logs(call, "parse")

-----------------------------------------------------------------------------
(* C27: a message shown by showMessage stays visible until 5000 ms after   *)
(* the most recent showMessage call: the hide timer of an earlier call     *)
(* never hides a later message, at most one hide timer is pending at any   *)
(* time, and every message is hidden in the end.                           *)
Visible == message.type # "hidden"

\* The step is a call of showMessage.
ShowsMessage == msgTimer'.count = msgTimer.count + 1

C27_OneTimer ==
  /\ Cardinality(msgTimer.pending) <= 1
  /\ Visible => \E t \in msgTimer.pending : t.id = msgTimer.handle /\ t.id = msgTimer.count
  /\ ~Visible => msgTimer.pending = {} /\ msgTimer.handle = 0

C27_Step ==
  /\ ShowsMessage =>
       /\ Visible'
       /\ msgTimer'.pending = {[id |-> msgTimer'.count, left |-> HideDelay]}
  /\ (Visible /\ ~Visible') =>
       \E t \in msgTimer.pending : t.id = msgTimer.count /\ t.left = 0
  /\ (Visible /\ ~ShowsMessage /\ message' # message) => ~Visible'
  /\ \A t \in msgTimer.pending : \A u \in msgTimer'.pending :
       (t.id = u.id /\ u.left < t.left) => (t.left - u.left \in Delays \/ u.left = 0)

\* C27: one hide timer at most, that of the most recent call; a message goes
\* when that timer has run its 5000 ms, and every message does go.
C27_MessageHides ==
  /\ []C27_OneTimer
  /\ [][C27_Step]_vars
  /\ (Visible ~> ~Visible)

\* A second message, shown while the first was up, has stayed for the whole
\* delay of its own timer and is still up.
C27_Witness ==
  /\ Visible
  /\ msgTimer.count = 2
  /\ msgTimer.pending = {[id |-> 2, left |-> 0]}

-----------------------------------------------------------------------------
(* C28: when two fetchStats calls overlap, then once both have completed   *)
(* playerStats, the seven stat fields and the combat field hold the values *)
(* of the call that was started last, whichever response arrived first.    *)
\* The call numbered id has stored its stats: it issued a request, is no
\* longer suspended and logged no error.
CompletedOk(id) ==
  /\ id \in 1 .. nCalls
  /\ \A c \in calls : c.id # id
  /\ \E i \in DOMAIN sent : sent[i].call = id
  /\ \A i \in DOMAIN consoleErrors : consoleErrors[i].call # id

\* A call whose body arrives after a call started later has stored its
\* stats leaves those in place.
C28_Step ==
  \A call \in calls : \A lines \in HiscoreBodies :
    (ReadsBody(call, lines) /\ \E id \in (call.id + 1) .. nCalls : CompletedOk(id))
      => ProfileKept

\* C28: the values of the call started last stay.
C28_LastStartedWins == [][C28_Step]_vars

-----------------------------------------------------------------------------
(* C29: for every cache key the timestamp of the stored entry never        *)
(* decreases: under any interleaving of overlapping requests for the key,  *)
(* an entry written by one request is never later replaced by the entry of *)
(* a request that started earlier.                                         *)
\* Requests are numbered in the order they start, and a payload carries the
\* number of the request that fetched it.
C29_Step ==
  \A key \in DOMAIN cache :
    /\ key \in DOMAIN cache'
    /\ cache'[key].timestamp >= cache[key].timestamp
    /\ cache'[key].data.n >= cache[key].data.n

\* C29: an entry is only ever replaced by a later request's entry.
C29_TimestampNeverDecreases == [][C29_Step]_vars

-----------------------------------------------------------------------------
(* C30: once one fetchStats call has succeeded, playerStats never becomes  *)
(* null again, not through a failed fetch, an edit of a stat input,        *)
(* loadProfile or clearProfile, and every later getPlayerData takes all    *)
(* seven skill levels from playerStats and none from the inputs: the       *)
(* levels of a profile come from a single source.                          *)
C30_Step ==
  /\ playerStats # Null => playerStats' = playerStats \/ \E call \in calls : call \notin calls'
  /\ playerStats # Null => playerStats' # Null
  /\ \A i \in BuiltInStep :
       SkillLevelsOf(profiles'[i]) =
         IF playerStats # Null THEN playerStats
         ELSE [f \in StatFields |-> ParseIntOrZero(fields[f])]

====
